---- MODULE Spec2Model ----
(***************************************************************************)
(* A model of the petrel toolchain of the AVN repository: the scanner      *)
(* (petrel/src/scanner.rs), the single-pass compiler                       *)
(* (petrel/src/compiler/compiler.rs), the stack VM                         *)
(* (petrel/src/runtime/vm.rs) and the region allocator                     *)
(* (petrel/src/runtime/bump.rs, block.rs).                                 *)
(*                                                                         *)
(* A character is modelled as a one-character string; the character        *)
(* U+00E9 (e with acute accent, alphabetic, two bytes in UTF-8) is written *)
(* "U00E9".  A source text is a sequence of characters (Vec<char>).        *)
(* usize arithmetic that can leave its range is modelled for both builds:  *)
(* a debug build panics on overflow, a release build wraps.                *)
(*                                                                         *)
(* The compiler is fed the tokens Scanner::scan returns, as in             *)
(* compiler_test::basic_arithmatic; token types its rules name but this    *)
(* scanner never emits (True, Null) do not arise in the pipeline.          *)
(***************************************************************************)
EXTENDS Integers, Sequences, FiniteSets, TLC

VARIABLES
    build,        \* "debug" (overflow checks on) or "release" (wrapping)
    source,       \* Scanner.source: Vec<char>
    line,         \* Scanner.line
    start,        \* Scanner.start
    tokens,       \* the local `tokens` of Scanner::scan
    scanStatus,   \* "scanning", "ok" (scan returned Ok), "err", "panic"
    scanErr,      \* the PetrelError scan returned, "" when none
    compStatus,   \* "none", "compiling", "ok" (compile returned), "panic"
    compErr,      \* the error the compiler raised before it panicked
    instructions, \* VM.instructions: Vec<Operation>
    constants,    \* VM.constants: Vec<Value>
    stack,        \* VM.stack: Vec<Value>
    ip,           \* VM.ip
    runStatus,    \* "none", "running", "ok", "err", "panic"
    runErr,       \* the VMError run returned, "" when none
    runErrLine,   \* <<line>> of the Context a VMError::Runtime carries, else <<>>
    runs,         \* what each call of run() that returned left: stack, ip, result
    line_mark,    \* BlockMeta.line_mark: the lines k with line_mark[k] == true
    block_mark,   \* BlockMeta.block_mark
    cursor,       \* BumpBlock.cursor
    limit,        \* BumpBlock.limit
    holes,        \* the calls of find_next_available_hole: argument and result
    allocs,       \* the calls of inner_alloc: argument and result
    bumpStatus,   \* "ready", or "panic" once inner_alloc has unwound
    block,        \* the Block: its state, ptr and size
    heap          \* the calls of std::alloc::alloc and dealloc, in order

scanVars == <<source, line, start, tokens, scanStatus, scanErr>>
compVars == <<compStatus, compErr>>
vmVars == <<instructions, constants, stack, ip, runStatus, runErr, runErrLine, runs>>
memVars == <<line_mark, block_mark, cursor, limit, holes, allocs, bumpStatus, block, heap>>
vars == <<build, scanVars, compVars, vmVars, memVars>>

----------------------------------------------------------------------------
(* Bounds of the model.                                                    *)

MaxWordLen == 4
MaxOpLen == 3
MaxNumLen == 5
MaxTextLen == 4
MaxMiscLen == 2

----------------------------------------------------------------------------
(* Characters.                                                             *)

\* Option::None of source.get(i)
NoChar == ""

AsciiDigits == {"0", "1", "2", "3", "4", "5", "6", "7", "8", "9"}

AsciiLetters ==
    {"a", "b", "c", "d", "e", "f", "g", "h", "i", "j", "k", "l", "m",
     "n", "o", "p", "q", "r", "s", "t", "u", "v", "w", "x", "y", "z"}

NonAsciiLetters == {"U00E9"}

\* char::is_ascii_digit
is_ascii_digit(c) == c \in AsciiDigits

\* char::is_alphabetic
is_alphabetic(c) == c \in AsciiLetters \cup NonAsciiLetters

\* char::is_alphanumeric
is_alphanumeric(c) == is_alphabetic(c) \/ c \in AsciiDigits

\* char::is_whitespace
is_whitespace(c) == c \in {" ", "\t", "\n", "\r"}

\* char::len_utf8, which is what c.to_string().len() measures
len_utf8(c) == IF c \in NonAsciiLetters THEN 2 ELSE 1

\* usize is modelled 20 bits wide: wrapping has the same shape at any width,
\* and BLOCK_SIZE lies below isize::MAX as it does on every target
UsizeBits == 20

UsizeModulus == 2 ^ UsizeBits

\* isize::MAX
IsizeMax == UsizeModulus \div 2 - 1

\* The values of a u8
U8Modulus == 2 ^ 8

----------------------------------------------------------------------------
(* Scanner (petrel/src/scanner.rs).  Indices are 0-based as in the source. *)

\* Vec::get
Get(src, i) == IF i >= 0 /\ i < Len(src) THEN src[i + 1] ELSE NoChar

Scanner_current(src, st) == Get(src, st)

Scanner_peek(src, st) == Get(src, st + 1)

Scanner_make_token(tt, len, st, ln) ==
    [tt |-> tt, line |-> ln, start |-> st, length |-> len]

\* self.start - len + 1 leaves usize when self.start < len
Underflows(st, len) == st < len

Scanner_make_consumed_token(tt, len, st, ln) ==
    [tt |-> tt, line |-> ln,
     start |-> IF Underflows(st, len)
               THEN (st - len + 1 + UsizeModulus) % UsizeModulus
               ELSE st - len + 1,
     length |-> len]

\* Results of the token-producing methods: the token (or error), the scanner's
\* start and line afterwards, and whether a usize subtraction underflowed.
TokOk(tok, st, ln, uf) ==
    [res |-> "ok", tok |-> tok, err |-> "", start |-> st, line |-> ln, uf |-> uf]

TokErr(err, st, ln) ==
    [res |-> "err", tok |-> Scanner_make_token("none", 0, 0, 0), err |-> err,
     start |-> st, line |-> ln, uf |-> FALSE]

Consumed(tt, len, st, ln) ==
    TokOk(Scanner_make_consumed_token(tt, len, st, ln), st, ln, Underflows(st, len))

\* end_of_file satisfied by any token instead of a last EOF token
Scanner_end_of_file_any(toks) == Len(toks) > 0

Scanner_end_of_file(toks) == Len(toks) > 0 /\ toks[Len(toks)].tt = "EOF"

RECURSIVE StringLoop(_, _, _, _)
StringLoop(src, st, ln, length) ==
    LET s == Scanner_peek(src, st) IN
    IF s = NoChar THEN TokErr("MissingDoubleQuote", st, ln)
    ELSE IF s = "\\" THEN StringLoop(src, st + 2, ln, length + 2)
    ELSE IF s = "\"" THEN Consumed("String", length, st, ln)
    ELSE StringLoop(src, st + 1, ln, length + 1)

Scanner_string(src, st, ln) == StringLoop(src, st, ln, 0)

\* while let Some(c) = s { if c.is_ascii_digit() { length += 1 } else { break } ... }
RECURSIVE DigitLoop(_, _, _)
DigitLoop(src, st, length) ==
    IF is_ascii_digit(Scanner_peek(src, st))
    THEN DigitLoop(src, st + 1, length + 1)
    ELSE [start |-> st, length |-> length]

NumberFraction(src, st, ln) ==
    LET a == DigitLoop(src, st, 1) IN
    IF Scanner_peek(src, a.start) = "."
    THEN LET b == DigitLoop(src, a.start + 1, a.length + 1)
         IN  Consumed("Number", b.length, b.start, ln)
    ELSE Consumed("Number", a.length, a.start, ln)

\* Scanner::number
Scanner_number(src, st, ln) == NumberFraction(src, st, ln)

RECURSIVE CommentLoop(_, _, _)
CommentLoop(src, st, ln) ==
    LET c == Get(src, st + 1) IN
    IF c = NoChar THEN [start |-> st + 1, line |-> ln]
    ELSE IF c = "\n" THEN [start |-> st + 1, line |-> ln + 1]
    ELSE CommentLoop(src, st + 1, ln)

Scanner_comment(src, st, ln) ==
    LET r == CommentLoop(src, st, ln) IN [start |-> r.start + 1, line |-> r.line]

RECURSIVE IdentifierLoop(_, _, _)
IdentifierLoop(src, st, len) ==
    LET c == Scanner_peek(src, st) IN
    IF c # NoChar /\ (is_alphanumeric(c) \/ c = "_")
    THEN IdentifierLoop(src, st + 1, len + 1)
    ELSE [start |-> st, length |-> len]

\* prefixLen is prefix.len(), a length in bytes
Scanner_identifier(src, st, ln, prefixLen) ==
    LET r == IdentifierLoop(src, st, prefixLen)
    IN  Consumed("Identifier", r.length, r.start, ln)

RECURSIVE CheckLoop(_, _, _, _, _, _)
CheckLoop(src, st, ln, to_check, length, kw) ==
    IF length >= Len(to_check)
    THEN LET l == Scanner_peek(src, st) IN
         IF l = NoChar THEN Consumed(kw, length, st, ln)
         ELSE IF is_whitespace(l) THEN Consumed(kw, length, st, ln)
         ELSE Scanner_identifier(src, st, ln, Len(to_check))
    ELSE LET l == Scanner_peek(src, st) IN
         IF l = NoChar THEN Scanner_identifier(src, st, ln, length)
         ELSE IF to_check[length + 1] # l THEN Scanner_identifier(src, st, ln, length)
         ELSE CheckLoop(src, st + 1, ln, to_check, length + 1, kw)

Scanner_check_word(src, st, ln, to_check, length, kw) ==
    CheckLoop(src, st, ln, to_check, length, kw)

\* The keyword variants of TokenType (petrel/src/token.rs) and their spelling
KeywordSpelling ==
    [Class |-> <<"c", "l", "a", "s", "s">>,
     Const |-> <<"c", "o", "n", "s", "t">>,
     Else |-> <<"e", "l", "s", "e">>,
     False |-> <<"f", "a", "l", "s", "e">>,
     For |-> <<"f", "o", "r">>,
     From |-> <<"f", "r", "o", "m">>,
     Fun |-> <<"f", "u", "n">>,
     If |-> <<"i", "f">>,
     In |-> <<"i", "n">>,
     Override |-> <<"o", "v", "e", "r", "r", "i", "d", "e">>,
     Promise |-> <<"p", "r", "o", "m", "i", "s", "e">>,
     Return |-> <<"r", "e", "t", "u", "r", "n">>,
     Super |-> <<"s", "u", "p", "e", "r">>,
     True |-> <<"t", "r", "u", "e">>,
     Use |-> <<"u", "s", "e">>,
     Var |-> <<"v", "a", "r">>,
     While |-> <<"w", "h", "i", "l", "e">>]

KeywordTypes == DOMAIN KeywordSpelling

\* The one-letter dispatch of Scanner::keyword
FirstLetterKeyword ==
    [e |-> "Else", o |-> "Override", p |-> "Promise", r |-> "Return",
     s |-> "Super", u |-> "Use", v |-> "Var", w |-> "While"]

\* The two-letter dispatch of Scanner::keyword ("Ambiguous keywords")
SecondLetterKeyword ==
    [c |-> [l |-> "Class", o |-> "Const"],
     f |-> [a |-> "False", o |-> "For", r |-> "From", u |-> "Fun"],
     i |-> [f |-> "If", n |-> "In"]]

Scanner_keyword(src, st, ln) ==
    LET c == Scanner_current(src, st) IN
    IF c = NoChar THEN TokOk(Scanner_make_token("EOF", 0, st, ln), st, ln, FALSE)
    ELSE IF c \in DOMAIN FirstLetterKeyword
    THEN Scanner_check_word(src, st, ln, KeywordSpelling[FirstLetterKeyword[c]], 1,
                            FirstLetterKeyword[c])
    ELSE IF c \in DOMAIN SecondLetterKeyword
    THEN \* self.next(): the start moves on to the second character
         LET n == Get(src, st + 1) IN
         IF n \in DOMAIN SecondLetterKeyword[c]
         THEN Scanner_check_word(src, st + 1, ln,
                                 KeywordSpelling[SecondLetterKeyword[c][n]], 2,
                                 SecondLetterKeyword[c][n])
         ELSE Scanner_identifier(src, st + 1, ln, 1)
    ELSE Scanner_identifier(src, st, ln, len_utf8(c))

SingleCharToken ==
    [c \in {".", "?", "+", "/", "*", "(", ")", "{", "}", "[", "]"} |->
        CASE c = "." -> "Dot"
          [] c = "?" -> "QuestionMark"
          [] c = "+" -> "Plus"
          [] c = "/" -> "Slash"
          [] c = "*" -> "Star"
          [] c = "(" -> "LeftParen"
          [] c = ")" -> "RightParen"
          [] c = "{" -> "LeftBrace"
          [] c = "}" -> "RightBrace"
          [] c = "[" -> "LeftBracket"
          [] c = "]" -> "RightBracket"]

\* first character |-> <<second character, two-character token, one-character token>>
DoubleCharToken ==
    [c \in {"!", "-", "<", ">", ":", "="} |->
        CASE c = "!" -> <<"=", "BangEqual", "Bang">>
          [] c = "-" -> <<">", "Arrow", "Minus">>
          [] c = "<" -> <<"=", "LessEqual", "Less">>
          [] c = ">" -> <<"=", "GreaterEqual", "Greater">>
          [] c = ":" -> <<":", "DoubleColon", "Colon">>
          [] c = "=" -> <<"=", "DoubleEqual", "Equal">>]

\* '!' => match self.peek() { Some('=') => make_token(BangEqual, 2), _ => make_token(Bang, 1) }
Scanner_double(src, st, ln, c) ==
    LET d == DoubleCharToken[c] IN
    IF Scanner_peek(src, st) = d[1]
    THEN TokOk(Scanner_make_token(d[2], 2, st, ln), st, ln, FALSE)
    ELSE TokOk(Scanner_make_token(d[3], 1, st, ln), st, ln, FALSE)

RECURSIVE Scanner_scan_token(_, _, _)
Scanner_scan_token(src, st, ln) ==
    LET c == Scanner_current(src, st) IN
    IF c = NoChar THEN TokOk(Scanner_make_token("EOF", 0, st, ln), st, ln, FALSE)
    ELSE IF c \in DOMAIN SingleCharToken
    THEN TokOk(Scanner_make_token(SingleCharToken[c], 1, st, ln), st, ln, FALSE)
    ELSE IF c \in DOMAIN DoubleCharToken THEN Scanner_double(src, st, ln, c)
    ELSE IF c = "\""
    THEN \* self.string(), then self.advance() past the closing quote
         LET tk == Scanner_string(src, st, ln) IN [tk EXCEPT !.start = @ + 1]
    ELSE IF c = "#"
    THEN LET r == Scanner_comment(src, st, ln)
         IN  Scanner_scan_token(src, r.start, r.line)
    ELSE IF c = "\n"
    THEN TokOk(Scanner_make_token("NL", 1, st, ln + 1), st, ln + 1, FALSE)
    ELSE IF is_ascii_digit(c) THEN Scanner_number(src, st, ln)
    ELSE IF is_alphabetic(c) \/ c = "_" THEN Scanner_keyword(src, st, ln)
    ELSE IF is_whitespace(c) THEN Scanner_scan_token(src, st + 1, ln)
    ELSE TokErr("UnknownCharacter", st, ln)

\* Scanner::new
Scanner_new(input) ==
    /\ source = input
    /\ line = 1
    /\ start = 0

\* One iteration of the loop of Scanner::scan: scan_token()?, push, advance;
\* the loop ends, and scan returns Ok, once the EOF token has been pushed.
ScanStep ==
    /\ scanStatus = "scanning"
    /\ ~Scanner_end_of_file(tokens)
    /\ LET t == Scanner_scan_token(source, start, line) IN
       IF t.res = "err"
       THEN /\ scanStatus' = "err"
            /\ scanErr' = t.err
            /\ start' = t.start
            /\ line' = t.line
            /\ UNCHANGED tokens
       ELSE IF t.uf /\ build = "debug"
       THEN /\ scanStatus' = "panic"
            /\ UNCHANGED <<scanErr, start, line, tokens>>
       ELSE /\ tokens' = Append(tokens, t.tok)
            /\ start' = t.start + 1
            /\ line' = t.line
            /\ scanStatus' = IF t.tok.tt = "EOF" THEN "ok" ELSE "scanning"
            /\ UNCHANGED scanErr
    /\ UNCHANGED <<build, source, compVars, vmVars, memVars>>

----------------------------------------------------------------------------
(* Values (Value::Number(f64), Value::Bool, Value::Null).  A finite f64 is *)
(* modelled exactly, as sign s, numerator n and denominator d in lowest    *)
(* terms (rounding is not modelled); zeros keep their sign, and the        *)
(* infinities and NaN behave as in IEEE 754.                               *)

RECURSIVE GCD(_, _)
GCD(a, b) == IF b = 0 THEN a ELSE GCD(b, a % b)

Fin(s, n, d) ==
    IF n = 0 THEN [t |-> "Number", c |-> "fin", s |-> s, n |-> 0, d |-> 1]
    ELSE [t |-> "Number", c |-> "fin", s |-> s, n |-> n \div GCD(n, d), d |-> d \div GCD(n, d)]

Inf(s) == [t |-> "Number", c |-> "inf", s |-> s, n |-> 0, d |-> 0]

NaN == [t |-> "Number", c |-> "nan", s |-> 1, n |-> 0, d |-> 0]

Bool(b) == [t |-> "Bool", b |-> b]

Null == [t |-> "Null"]

IsZero(x) == x.c = "fin" /\ x.n = 0

\* -n
F64Neg(x) == IF x.c = "nan" THEN x ELSE [x EXCEPT !.s = -@]

\* bn + an
F64Add(x, y) ==
    IF x.c = "nan" \/ y.c = "nan" THEN NaN
    ELSE IF x.c = "inf" /\ y.c = "inf" THEN (IF x.s = y.s THEN x ELSE NaN)
    ELSE IF x.c = "inf" THEN x
    ELSE IF y.c = "inf" THEN y
    ELSE LET v == x.s * x.n * y.d + y.s * y.n * x.d IN
         IF v = 0
         THEN Fin(IF IsZero(x) /\ IsZero(y) /\ x.s = -1 /\ y.s = -1 THEN -1 ELSE 1, 0, 1)
         ELSE IF v > 0 THEN Fin(1, v, x.d * y.d)
         ELSE Fin(-1, -v, x.d * y.d)

\* bn - an
F64Sub(x, y) == F64Add(x, F64Neg(y))

\* bn * an
F64Mul(x, y) ==
    IF x.c = "nan" \/ y.c = "nan" THEN NaN
    ELSE IF (x.c = "inf" /\ IsZero(y)) \/ (IsZero(x) /\ y.c = "inf") THEN NaN
    ELSE IF x.c = "inf" \/ y.c = "inf" THEN Inf(x.s * y.s)
    ELSE Fin(x.s * y.s, x.n * y.n, x.d * y.d)

\* bn / an
F64Div(x, y) ==
    IF x.c = "nan" \/ y.c = "nan" THEN NaN
    ELSE IF (x.c = "inf" /\ y.c = "inf") \/ (IsZero(x) /\ IsZero(y)) THEN NaN
    ELSE IF x.c = "inf" THEN Inf(x.s * y.s)
    ELSE IF y.c = "inf" THEN Fin(x.s * y.s, 0, 1)
    ELSE IF IsZero(y) THEN Inf(x.s * y.s)
    ELSE Fin(x.s * y.s, x.n * y.d, x.d * y.n)

RECURSIVE DigitsValue(_)
DigitsValue(w) ==
    IF w = <<>> THEN 0
    ELSE 10 * DigitsValue(SubSeq(w, 1, Len(w) - 1))
         + (CHOOSE v \in 0..9 : ToString(v) = w[Len(w)])

\* str::parse::<f64> on texts of signs, digits and '.': an optional sign, then
\* digits with at most one '.', at least one digit.  NoValue is the Err.
NoValue == [t |-> "none"]

ParseF64(w) ==
    LET signed == Len(w) > 0 /\ w[1] \in {"+", "-"}
        body == IF signed THEN SubSeq(w, 2, Len(w)) ELSE w
        dots == {p \in 1..Len(body) : body[p] = "."}
        digits == SelectSeq(body, is_ascii_digit)
    IN  IF \/ Len(digits) = 0
           \/ Cardinality(dots) > 1
           \/ \E p \in 1..Len(body) : ~is_ascii_digit(body[p]) /\ body[p] # "."
        THEN NoValue
        ELSE LET frac == IF dots = {} THEN 0 ELSE Len(body) - (CHOOSE p \in dots : TRUE)
             IN  Fin(IF signed /\ w[1] = "-" THEN -1 ELSE 1, DigitsValue(digits), 10 ^ frac)

----------------------------------------------------------------------------
(* Compiler (petrel/src/compiler/compiler.rs, petrel/src/compiler/token.rs) *)

Opcode ==
    [OpReturn |-> 0, OpConstant |-> 1, OpNegate |-> 2, OpAdd |-> 3,
     OpSubtract |-> 4, OpMultiply |-> 5, OpDivide |-> 6, OpNull |-> 7,
     OpTrue |-> 8, OpFalse |-> 9, OpNot |-> 10]

Precedence ==
    [None |-> 0, Assignment |-> 1, Or |-> 2, And |-> 3, Equality |-> 4,
     Comparison |-> 5, Term |-> 6, Factor |-> 7, Unary |-> 8, Call |-> 9,
     Primary |-> 10]

\* impl From<u8> for Precedence
Precedence_from(p) == IF p > Precedence.Primary THEN Precedence.Primary ELSE p

ParseRule(prefix, infix, precedence) ==
    [prefix |-> prefix, infix |-> infix, precedence |-> precedence]

\* TokenType::get_rule; "" is None
get_rule(tt) ==
    CASE tt = "LeftParen" -> ParseRule("grouping", "", Precedence.None)
      [] tt = "Minus" -> ParseRule("unary", "binary", Precedence.Term)
      [] tt = "Plus" -> ParseRule("", "binary", Precedence.Term)
      [] tt = "Slash" -> ParseRule("", "binary", Precedence.Factor)
      [] tt = "Star" -> ParseRule("", "binary", Precedence.Factor)
      [] tt = "Number" -> ParseRule("number", "", Precedence.None)
      [] tt = "False" -> ParseRule("literal", "", Precedence.None)
      [] tt = "True" -> ParseRule("literal", "", Precedence.None)
      [] tt = "Null" -> ParseRule("literal", "", Precedence.None)
      [] tt = "Bang" -> ParseRule("unary", "", Precedence.None)
      [] OTHER -> ParseRule("", "", Precedence.None)

\* source.lines().map(|s| s.to_string()).collect(): the lines joined without
\* their terminators ("\n", or "\r\n")
Lines_collect(src) ==
    LET keep(p) == /\ src[p] # "\n"
                   /\ ~(src[p] = "\r" /\ p < Len(src) /\ src[p + 1] = "\n")
        F[p \in 0..Len(src)] ==
            IF p = 0 THEN <<>>
            ELSE IF keep(p) THEN Append(F[p - 1], src[p]) ELSE F[p - 1]
    IN  F[Len(src)]

\* The bytes of a String: a character of two bytes is followed by a
\* continuation slot
ContinuationByte == "<cont>"

Utf8Bytes(src) ==
    LET F[p \in 0..Len(src)] ==
            IF p = 0 THEN <<>>
            ELSE IF len_utf8(src[p]) = 2
                 THEN F[p - 1] \o <<src[p], ContinuationByte>>
                 ELSE Append(F[p - 1], src[p])
    IN  F[Len(src)]

\* str::get(a..b): None unless a <= b <= len and both are char boundaries
Str_get(bytes, a, b) ==
    IF /\ a <= b /\ b <= Len(bytes)
       /\ (a = Len(bytes) \/ bytes[a + 1] # ContinuationByte)
       /\ (b = Len(bytes) \/ bytes[b + 1] # ContinuationByte)
    THEN [some |-> TRUE,
          text |-> SelectSeq(SubSeq(bytes, a + 1, b), LAMBDA c : c # ContinuationByte)]
    ELSE [some |-> FALSE, text |-> <<>>]

\* The compiler while it runs: cs.st is "ok", "err" (a Result::Err on its way
\* up through the ? operators) or "panic" (unwinding); cs.err says which.
Compiler_new(src, toks) ==
    [source |-> Lines_collect(src), tokens |-> toks, index |-> 0,
     ins |-> <<>>, consts |-> <<>>, panicMode |-> FALSE, st |-> "ok", err |-> ""]

Panic(cs, message) == [cs EXCEPT !.st = "panic", !.err = message]

InRange(cs, i) == i >= 0 /\ i < Len(cs.tokens)

TokenAt(cs, i) == cs.tokens[i + 1]

Compiler_advance(cs) == [cs EXCEPT !.index = @ + 1]

\* Compiler::report_error
Compiler_report_error(cs, code_error) ==
    [cs EXCEPT !.panicMode = TRUE, !.st = "err", !.err = code_error]

\* VM::write_operation
VM_write_operation(cs, code, ln) ==
    [cs EXCEPT !.ins = Append(@, [opcode |-> code, line |-> ln])]

\* VM::write_constant: the index (self.constants.len() - 1) as u8
VM_write_constant_index(consts) == (Len(consts) - 1) % U8Modulus

\* Compiler::add_instruction; current() panics when the index is out of range
Compiler_add_instruction(cs, inst) ==
    IF ~InRange(cs, cs.index) THEN Panic(cs, "Current token out of range.")
    ELSE VM_write_operation(cs, inst, TokenAt(cs, cs.index).line)

\* Compiler::add_constant
Compiler_add_constant(cs, value) ==
    IF ~InRange(cs, cs.index) THEN Panic(cs, "Current token out of range.")
    ELSE LET current_line == TokenAt(cs, cs.index).line
             pool == Append(cs.consts, value)
             rf == VM_write_constant_index(pool)
         IN  VM_write_operation(
                 VM_write_operation([cs EXCEPT !.consts = pool],
                                    Opcode.OpConstant, current_line),
                 rf, current_line)

\* Compiler::create_annotation: self.source.lines().nth(token.line - 1)
\* .expect("Invalid line"); self.source holds no line terminator any more
AnnotationLineExists(cs, token) ==
    token.line - 1 < (IF Len(cs.source) = 0 THEN 0 ELSE 1)

\* report_error(SyntaxError(create_annotation(token)))
SyntaxErrorAt(cs, token) ==
    IF AnnotationLineExists(cs, token)
    THEN Compiler_report_error(cs, "SyntaxError")
    ELSE Panic(cs, "Invalid line")

\* Compiler::consume
Compiler_consume(cs, tt) ==
    IF ~InRange(cs, cs.index) THEN Panic(cs, "Current token out of range.")
    ELSE IF TokenAt(cs, cs.index).tt = tt THEN Compiler_advance(cs)
    ELSE SyntaxErrorAt(cs, TokenAt(cs, cs.index))

\* Compiler::number
Compiler_number(cs) ==
    LET previous == TokenAt(cs, cs.index - 1)
        value == Str_get(Utf8Bytes(cs.source), previous.start,
                         previous.start + previous.length)
    IN  IF ~value.some THEN Panic(cs, "token should reference valid number")
        ELSE IF ParseF64(value.text) = NoValue
        THEN Panic(cs, "string should represent valid number")
        ELSE Compiler_add_constant(cs, ParseF64(value.text))

\* Compiler::literal
Compiler_literal(cs) ==
    LET tt == TokenAt(cs, cs.index - 1).tt IN
    CASE tt = "False" -> Compiler_add_instruction(cs, Opcode.OpFalse)
      [] tt = "True" -> Compiler_add_instruction(cs, Opcode.OpTrue)
      [] tt = "Null" -> Compiler_add_instruction(cs, Opcode.OpNull)
      [] OTHER -> Panic(cs, "Innapropriate use of literal fn")

RECURSIVE Compiler_parse_precidence(_, _)
RECURSIVE Compiler_expression(_)
RECURSIVE InfixLoop(_, _)

\* Compiler::expression with the error swallowed instead of raised
Compiler_expression_lenient(cs) ==
    LET r == Compiler_parse_precidence(cs, Precedence.Assignment) IN
    IF r.st = "err" THEN [r EXCEPT !.st = "ok"] ELSE r

\* Compiler::expression: if let Err(e) = self.parse_precidence(..) { panic!("{}", e) }
Compiler_expression(cs) ==
    LET r == Compiler_parse_precidence(cs, Precedence.Assignment) IN
    IF r.st = "err" THEN Panic(r, r.err) ELSE r

\* Compiler::grouping
Compiler_grouping(cs) ==
    LET r == Compiler_expression(cs) IN
    IF r.st # "ok" THEN r ELSE Compiler_consume(r, "RightParen")

\* Compiler::unary with the opcode emitted before the operand is compiled
Compiler_unary_operator_first(cs) ==
    LET tt == TokenAt(cs, cs.index - 1).tt
        e == CASE tt = "Minus" -> Compiler_add_instruction(cs, Opcode.OpNegate)
               [] tt = "Bang" -> Compiler_add_instruction(cs, Opcode.OpNot)
               [] OTHER -> Panic(cs, "Unsupported unary token.")
    IN  IF e.st # "ok" THEN e ELSE Compiler_expression(e)

\* Compiler::unary
Compiler_unary(cs) ==
    LET tt == TokenAt(cs, cs.index - 1).tt
        r == Compiler_expression(cs)
    IN  IF r.st # "ok" THEN r
        ELSE CASE tt = "Minus" -> Compiler_add_instruction(r, Opcode.OpNegate)
               [] tt = "Bang" -> Compiler_add_instruction(r, Opcode.OpNot)
               [] OTHER -> Panic(r, "Unsupported unary token.")

\* Compiler::binary with the right operand parsed at the operator's own level
Compiler_binary_same_level(cs) ==
    LET tt == TokenAt(cs, cs.index - 1).tt
        rule == get_rule(tt)
        r == Compiler_parse_precidence(cs, Precedence_from(rule.precedence))
    IN  IF r.st # "ok" THEN r
        ELSE CASE tt = "Plus" -> Compiler_add_instruction(r, Opcode.OpAdd)
               [] tt = "Minus" -> Compiler_add_instruction(r, Opcode.OpSubtract)
               [] tt = "Star" -> Compiler_add_instruction(r, Opcode.OpMultiply)
               [] tt = "Slash" -> Compiler_add_instruction(r, Opcode.OpDivide)
               [] OTHER -> Panic(r, "Unsupported binary operation")

\* Compiler::binary
Compiler_binary(cs) ==
    LET tt == TokenAt(cs, cs.index - 1).tt
        rule == get_rule(tt)
        r == Compiler_parse_precidence(cs, Precedence_from(rule.precedence + 1))
    IN  IF r.st # "ok" THEN r
        ELSE CASE tt = "Plus" -> Compiler_add_instruction(r, Opcode.OpAdd)
               [] tt = "Minus" -> Compiler_add_instruction(r, Opcode.OpSubtract)
               [] tt = "Star" -> Compiler_add_instruction(r, Opcode.OpMultiply)
               [] tt = "Slash" -> Compiler_add_instruction(r, Opcode.OpDivide)
               [] OTHER -> Panic(r, "Unsupported binary operation")

\* The prefix or infix handler a ParseRule names
CallParseFn(cs, f) ==
    CASE f = "grouping" -> Compiler_grouping(cs)
      [] f = "unary" -> Compiler_unary(cs)
      [] f = "binary" -> Compiler_binary(cs)
      [] f = "number" -> Compiler_number(cs)
      [] f = "literal" -> Compiler_literal(cs)

\* while precedence <= self.current().tt.get_rule().precedence { ... }
InfixLoop(cs, precedence) ==
    IF cs.st # "ok" THEN cs
    ELSE IF ~InRange(cs, cs.index) THEN Panic(cs, "Current token out of range.")
    ELSE IF precedence <= get_rule(TokenAt(cs, cs.index).tt).precedence
    THEN LET a == Compiler_advance(cs)
             infix_rule == get_rule(TokenAt(a, a.index - 1).tt).infix
         IN  InfixLoop(IF infix_rule # "" THEN CallParseFn(a, infix_rule) ELSE a,
                       precedence)
    ELSE cs

\* Compiler::parse_precidence
Compiler_parse_precidence(cs, precedence) ==
    LET a == Compiler_advance(cs) IN
    IF ~InRange(a, a.index - 1) THEN Panic(a, "Should always be a previous token")
    ELSE LET prefix_rule == get_rule(TokenAt(a, a.index - 1).tt).prefix
             b == IF prefix_rule # "" THEN CallParseFn(a, prefix_rule)
                  ELSE SyntaxErrorAt(a, TokenAt(a, a.index - 1))
         IN  InfixLoop(b, precedence)

\* Compiler::compile without the closing add_instruction(OpReturn)
Compiler_compile_no_return(cs) ==
    LET a == Compiler_expression(cs) IN
    IF a.st # "ok" THEN a
    ELSE LET b == Compiler_consume(a, "EOF") IN
         IF b.st = "err" THEN Panic(b, "Expected end of expression")
         ELSE IF b.st # "ok" THEN b
         ELSE [b EXCEPT !.index = @ - 1]

\* Compiler::compile
Compiler_compile(cs) ==
    LET a == Compiler_expression(cs) IN
    IF a.st # "ok" THEN a
    ELSE LET b == Compiler_consume(a, "EOF") IN
         IF b.st = "err" THEN Panic(b, "Expected end of expression")
         ELSE IF b.st # "ok" THEN b
         ELSE Compiler_add_instruction([b EXCEPT !.index = @ - 1], Opcode.OpReturn)

\* The caller of the tests: Compiler::new(scanner.source.iter().collect(), tks)
\* and compile(), once scan has returned Ok.  compile returns &mut VM, so it
\* either returns the VM or unwinds.
Compile ==
    /\ scanStatus = "ok"
    /\ compStatus = "none"
    /\ LET r == Compiler_compile(Compiler_new(source, tokens)) IN
       /\ compStatus' = IF r.st = "ok" THEN "ok" ELSE "panic"
       /\ compErr' = r.err
       /\ instructions' = r.ins
       /\ constants' = r.consts
    /\ UNCHANGED <<build, scanVars, stack, ip, runStatus, runErr, runErrLine, runs, memVars>>

----------------------------------------------------------------------------
(* Virtual machine (petrel/src/runtime/vm.rs).                             *)

\* Opcode::try_from(u8): only the bytes 0..6 have an arm
Opcode_try_from(byte) ==
    IF byte \in Opcode.OpReturn..Opcode.OpDivide
    THEN [ok |-> TRUE, op |-> byte]
    ELSE [ok |-> FALSE, op |-> byte]

\* dissasemble_instruction(self, self.ip), called on every iteration: it
\* panics on a byte try_from rejects, and indexes the operand and the pool
Dissasemble_panics(ins, consts, offset) ==
    LET decoded == Opcode_try_from(ins[offset + 1].opcode) IN
    \/ ~decoded.ok
    \/ /\ decoded.op = Opcode.OpConstant
       /\ \/ offset + 1 >= Len(ins)
          \/ ins[offset + 2].opcode >= Len(consts)

\* VM::peek: self.stack.len() - 1 - distance leaves usize on a short stack
VM_peek(stk, distance, bld) ==
    IF Len(stk) - 1 - distance < 0
    THEN IF bld = "debug" THEN [st |-> "panic", err |-> "attempt to subtract with overflow"]
         ELSE [st |-> "err", err |-> "EmptyStack"]
    ELSE [st |-> "ok", v |-> stk[Len(stk) - distance]]

Outcome(stk, ipv, st, err) ==
    [stack |-> stk, ip |-> ipv, st |-> st, err |-> err, line |-> <<>>]

\* Err(VMError::Runtime(create_context(instruction, ..)))?: Context::new(.., ins.line, ..)
RuntimeError(stk, ipv, instruction) ==
    [Outcome(stk, ipv, "err", "Runtime") EXCEPT !.line = <<instruction.line>>]

\* binary_op! with the operands taken in the order they are popped
Arith_flipped(op, bn, an) ==
    CASE op = Opcode.OpAdd -> F64Add(an, bn)
      [] op = Opcode.OpSubtract -> F64Sub(an, bn)
      [] op = Opcode.OpMultiply -> F64Mul(an, bn)
      [] op = Opcode.OpDivide -> F64Div(an, bn)

Arith(op, bn, an) ==
    CASE op = Opcode.OpAdd -> F64Add(bn, an)
      [] op = Opcode.OpSubtract -> F64Sub(bn, an)
      [] op = Opcode.OpMultiply -> F64Mul(bn, an)
      [] op = Opcode.OpDivide -> F64Div(bn, an)

\* binary_op!: an is popped first, bn second; the result is bn op an
binary_op(op, stk, ipv, bld, instruction) ==
    LET p0 == VM_peek(stk, 0, bld) IN
    IF p0.st # "ok" THEN Outcome(stk, ipv, p0.st, p0.err)
    ELSE IF p0.v.t = "Number"
    THEN LET p1 == VM_peek(stk, 1, bld) IN
         IF p1.st # "ok" THEN Outcome(stk, ipv, p1.st, p1.err)
         ELSE IF p1.v.t = "Number"
         THEN Outcome(Append(SubSeq(stk, 1, Len(stk) - 2), Arith(op, p1.v, p0.v)),
                      ipv + 1, "running", "")
         ELSE RuntimeError(stk, ipv, instruction)
    ELSE Outcome(stk, ipv + 1, "running", "")

\* OpNegate with the trailing self.ip += 1 left out
VM_negate_stuck(stk, ipv, bld, instruction) ==
    LET p0 == VM_peek(stk, 0, bld) IN
    IF p0.st # "ok" THEN Outcome(stk, ipv, p0.st, p0.err)
    ELSE IF p0.v.t = "Number"
    THEN Outcome(Append(SubSeq(stk, 1, Len(stk) - 1), F64Neg(p0.v)), ipv, "running", "")
    ELSE RuntimeError(stk, ipv, instruction)

VM_negate(stk, ipv, bld, instruction) ==
    LET p0 == VM_peek(stk, 0, bld) IN
    IF p0.st # "ok" THEN Outcome(stk, ipv, p0.st, p0.err)
    ELSE IF p0.v.t = "Number"
    THEN Outcome(Append(SubSeq(stk, 1, Len(stk) - 1), F64Neg(p0.v)), ipv + 1, "running", "")
    ELSE RuntimeError(stk, ipv, instruction)

VM_not(stk, ipv, bld, instruction) ==
    LET p0 == VM_peek(stk, 0, bld) IN
    IF p0.st # "ok" THEN Outcome(stk, ipv, p0.st, p0.err)
    ELSE IF p0.v.t = "Bool"
    THEN Outcome(Append(SubSeq(stk, 1, Len(stk) - 1), Bool(~p0.v.b)), ipv + 1, "running", "")
    ELSE IF p0.v.t = "Null" THEN Outcome(stk, ipv + 1, "running", "")
    ELSE RuntimeError(stk, ipv, instruction)

\* OpReturn with the pointer advanced before the loop is left
VM_return_advanced(stk, ipv) == Outcome(stk, ipv + 1, "ok", "")

\* OpReturn => break: the loop is left before self.ip += 1
VM_return(stk, ipv) == Outcome(stk, ipv, "ok", "")

\* One iteration of the loop of VM::run
VM_run_iteration(ins, consts, stk, ipv, bld) ==
    IF ipv >= Len(ins) THEN Outcome(stk, ipv, "err", "NoReturn")
    ELSE IF Dissasemble_panics(ins, consts, ipv) THEN Outcome(stk, ipv, "panic", "dissasemble")
    ELSE LET decoded == Opcode_try_from(ins[ipv + 1].opcode)
             op == decoded.op
         IN  IF ~decoded.ok THEN Outcome(stk, ipv, "err", "InvalidOpcodeConversion")
             ELSE CASE op = Opcode.OpReturn -> VM_return(stk, ipv)
                    [] op \in {Opcode.OpAdd, Opcode.OpSubtract, Opcode.OpMultiply,
                               Opcode.OpDivide} -> binary_op(op, stk, ipv, bld, ins[ipv + 1])
                    [] op = Opcode.OpNegate -> VM_negate(stk, ipv, bld, ins[ipv + 1])
                    [] op = Opcode.OpConstant ->
                           Outcome(Append(stk, consts[ins[ipv + 2].opcode + 1]),
                                   ipv + 2, "running", "")
                    [] op = Opcode.OpNull -> Outcome(Append(stk, Null), ipv + 1, "running", "")
                    [] op = Opcode.OpTrue ->
                           Outcome(Append(stk, Bool(TRUE)), ipv + 1, "running", "")
                    [] op = Opcode.OpFalse ->
                           Outcome(Append(stk, Bool(FALSE)), ipv + 1, "running", "")
                    [] op = Opcode.OpNot -> VM_not(stk, ipv, bld, ins[ipv + 1])

\* One pass through the loop of VM::run on self; run neither resets the stack
\* nor the pointer on entry, and what it leaves when it returns is kept in runs
RunIteration ==
    LET r == VM_run_iteration(instructions, constants, stack, ip, build) IN
    /\ stack' = r.stack
    /\ ip' = r.ip
    /\ runStatus' = r.st
    /\ runErr' = r.err
    /\ runErrLine' = r.line
    /\ runs' = IF r.st \in {"ok", "err"}
               THEN Append(runs, [stack |-> r.stack, ip |-> r.ip, st |-> r.st,
                                  err |-> r.err, line |-> r.line])
               ELSE runs

\* compile().run(..): the VM the compiler returned runs, one iteration a step
RunStep ==
    /\ compStatus = "ok"
    /\ runStatus \in {"none", "running"}
    /\ RunIteration
    /\ UNCHANGED <<build, scanVars, compVars, instructions, constants, memVars>>

\* Calls of run() on one VM
MaxRuns == 2

\* run() called once more on a VM whose last run() has returned: the first
\* pass through its loop
RunAgain ==
    /\ compStatus = "ok"
    /\ runStatus \in {"ok", "err"}
    /\ Len(runs) < MaxRuns
    /\ RunIteration
    /\ UNCHANGED <<build, scanVars, compVars, instructions, constants, memVars>>

----------------------------------------------------------------------------
(* Region allocator (petrel/src/runtime/bump.rs, block.rs).                *)

BLOCK_SIZE_BITS == 15
BLOCK_SIZE == 2 ^ BLOCK_SIZE_BITS
LINE_SIZE_BITS == 7
LINE_SIZE == 2 ^ LINE_SIZE_BITS
LINE_COUNT == BLOCK_SIZE \div LINE_SIZE

\* No Block has been asked for
NoBlock == [st |-> "none", ptr |-> 0, size |-> 0]

\* Option<(usize, usize)>
None == [some |-> FALSE, cursor |-> 0, limit |-> 0]

Some(c, l) == [some |-> TRUE, cursor |-> c, limit |-> l]

\* The locals of find_next_available_hole: count, start (<<>> for
\* Option::None) and stop, and the value returned from inside the loop
\* (<<>> while the loop goes on)
HoleLocals(count, hole_start, stop, returned) ==
    [count |-> count, start |-> hole_start, stop |-> stop, returned |-> returned]

\* The body of the for loop with stop = abs_index for an unmarked line
HoleStep_short_stop(marks, abs_index, locals) ==
    LET marked == abs_index \in marks
        counted == IF marked THEN locals.count ELSE locals.count + 1
    IN  IF locals.returned # <<>> THEN locals
        ELSE IF ~marked /\ counted = 1 /\ abs_index > 0
        THEN [locals EXCEPT !.count = counted]
        ELSE LET started == IF ~marked /\ locals.start = <<>>
                            THEN <<abs_index>> ELSE locals.start
                 stopped == IF ~marked THEN abs_index ELSE locals.stop
             IN  IF counted > 0 /\ (marked \/ stopped >= LINE_COUNT) /\ started # <<>>
                 THEN HoleLocals(counted, started, stopped,
                                 <<Some(started[1] * LINE_SIZE, stopped * LINE_SIZE)>>)
                 ELSE IF marked THEN HoleLocals(0, <<>>, stopped, <<>>)
                 ELSE HoleLocals(counted, started, stopped, <<>>)

\* The body of the for loop with the first line of every hole skipped,
\* line 0 too
HoleStep_skip_line_zero(marks, abs_index, locals) ==
    LET marked == abs_index \in marks
        counted == IF marked THEN locals.count ELSE locals.count + 1
    IN  IF locals.returned # <<>> THEN locals
        ELSE IF ~marked /\ counted = 1
        THEN [locals EXCEPT !.count = counted]
        ELSE LET started == IF ~marked /\ locals.start = <<>>
                            THEN <<abs_index>> ELSE locals.start
                 stopped == IF ~marked THEN abs_index + 1 ELSE locals.stop
             IN  IF counted > 0 /\ (marked \/ stopped >= LINE_COUNT) /\ started # <<>>
                 THEN HoleLocals(counted, started, stopped,
                                 <<Some(started[1] * LINE_SIZE, stopped * LINE_SIZE)>>)
                 ELSE IF marked THEN HoleLocals(0, <<>>, stopped, <<>>)
                 ELSE HoleLocals(counted, started, stopped, <<>>)

\* The body of the for loop of find_next_available_hole for line abs_index;
\* once the function has returned, nothing more happens
HoleStep(marks, abs_index, locals) ==
    LET marked == abs_index \in marks
        counted == IF marked THEN locals.count ELSE locals.count + 1
    IN  IF locals.returned # <<>> THEN locals
        ELSE IF ~marked /\ counted = 1 /\ abs_index > 0
        THEN [locals EXCEPT !.count = counted]
        ELSE LET started == IF ~marked /\ locals.start = <<>>
                            THEN <<abs_index>> ELSE locals.start
                 stopped == IF ~marked THEN abs_index + 1 ELSE locals.stop
             IN  IF counted > 0 /\ (marked \/ stopped >= LINE_COUNT) /\ started # <<>>
                 THEN HoleLocals(counted, started, stopped,
                                 <<Some(started[1] * LINE_SIZE, stopped * LINE_SIZE)>>)
                 ELSE IF marked THEN HoleLocals(0, <<>>, stopped, <<>>)
                 ELSE HoleLocals(counted, started, stopped, <<>>)

\* The iterations of the for loop for the lines from..(to - 1), in order:
\* those of the first half of the range, then those of the second
RECURSIVE HoleLoop(_, _, _, _)
HoleLoop(marks, locals, from, to) ==
    IF from >= to \/ locals.returned # <<>> THEN locals
    ELSE IF to = from + 1 THEN HoleStep(marks, from, locals)
    ELSE LET middle == (from + to) \div 2
         IN  HoleLoop(marks, HoleLoop(marks, locals, from, middle), middle, to)

\* BlockMeta::find_next_available_hole; self.line_mark[starting_line..]
\* panics when starting_line is past the array's length
BlockMeta_find_next_available_hole(marks, starting_at) ==
    LET starting_line == starting_at \div LINE_SIZE
        locals == HoleLoop(marks, HoleLocals(0, <<>>, 0, <<>>), starting_line, LINE_COUNT)
    IN  IF starting_line > LINE_COUNT THEN [st |-> "panic", hole |-> None]
        ELSE [st |-> "ok",
              hole |-> IF locals.returned # <<>> THEN locals.returned[1] ELSE None]

\* Lines at which marks are set and from which holes are sought: the first
\* lines of a block and its last
SampleLines == {0, 1, 2, 3, 4, LINE_COUNT - 3, LINE_COUNT - 2, LINE_COUNT - 1}

MaxMarks == 2

\* line_mark arrays as the mark phase may leave them: at most MaxMarks of
\* the sample lines marked, or every line marked but at most MaxMarks of them
LineMarks ==
    LET few == {m \in SUBSET SampleLines : Cardinality(m) <= MaxMarks}
    IN  few \cup {(0..(LINE_COUNT - 1)) \ m : m \in few}

\* Values of starting_at: offsets at the start, inside and at the end of the
\* sample lines, the block's end, and an offset past it
StartOffsets ==
    {k * LINE_SIZE + d : k \in SampleLines, d \in {0, 1, LINE_SIZE - 1}}
    \cup {BLOCK_SIZE, BLOCK_SIZE + LINE_SIZE}

\* meta.find_next_available_hole(starting_at), once on a BlockMeta
FindHole ==
    /\ holes = <<>>
    /\ \E starting_at \in StartOffsets :
          LET r == BlockMeta_find_next_available_hole(line_mark, starting_at) IN
          holes' = <<[starting_at |-> starting_at, st |-> r.st, hole |-> r.hole]>>
    /\ UNCHANGED <<build, scanVars, compVars, vmVars, line_mark, block_mark, cursor, limit,
                   allocs, bumpStatus, block, heap>>

\* The allocator takes no part
NoRegion ==
    /\ line_mark = {}
    /\ block_mark = FALSE
    /\ cursor = 0
    /\ limit = 0
    /\ holes = <<>>
    /\ allocs = <<>>
    /\ bumpStatus = "ready"
    /\ block = NoBlock
    /\ heap = <<>>

\* BumpBlock::inner_alloc: self.cursor + alloc_size is a usize addition
BumpBlock_inner_alloc(cur, alloc_size, bld) ==
    LET sum == cur + alloc_size
        next_bump == sum % UsizeModulus
    IN  IF sum >= UsizeModulus /\ bld = "debug"
        THEN [st |-> "panic", cursor |-> cur, offset |-> 0]
        ELSE IF next_bump > BLOCK_SIZE
        THEN [st |-> "none", cursor |-> cur, offset |-> 0]
        ELSE [st |-> "some", cursor |-> next_bump, offset |-> cur]

MaxAllocs == 3

\* Values of alloc_size: small objects, a line, most of a block, a block,
\* and the largest usize
AllocSizes ==
    {0, 1, 8, LINE_SIZE, BLOCK_SIZE - LINE_SIZE, BLOCK_SIZE, UsizeModulus - 1}

\* bump_block.inner_alloc(alloc_size); ptr is self.block.as_ptr().add(offset)
InnerAlloc ==
    /\ block.st = "live"
    /\ bumpStatus = "ready"
    /\ Len(allocs) < MaxAllocs
    /\ \E alloc_size \in AllocSizes :
          LET r == BumpBlock_inner_alloc(cursor, alloc_size, build) IN
          /\ cursor' = r.cursor
          /\ bumpStatus' = IF r.st = "panic" THEN "panic" ELSE "ready"
          /\ allocs' = Append(allocs,
                              [alloc_size |-> alloc_size, st |-> r.st,
                               ptr |-> IF r.st = "some" THEN block.ptr + r.offset ELSE 0])
    /\ UNCHANGED <<build, scanVars, compVars, vmVars, line_mark, block_mark, limit, holes,
                   block, heap>>

\* usize::is_power_of_two
is_power_of_two(n) == \E k \in 0..(UsizeBits - 1) : n = 2 ^ k

\* A call of std::alloc::alloc or dealloc; ptr 0 is the null pointer
HeapCall(op, ptr, size, align) == [op |-> op, ptr |-> ptr, size |-> size, align |-> align]

MaxAddressMultiple == 3

\* What alloc(layout) may answer for a layout of size and align `size`:
\* null, or an address that is a multiple of the alignment
Answers(size) ==
    {0} \cup {a \in {size * k : k \in 1..MaxAddressMultiple} : a + size <= UsizeModulus}

\* internal::alloc_block.  Layout::from_size_align_unchecked(size, size)
\* requires that size, rounded up to align, does not exceed isize::MAX; for
\* the one power of two above it the call is undefined behaviour: the
\* precondition check of a debug build aborts the process, and without the
\* check the oversized request comes back null.
alloc_block(size, bld) ==
    IF size > IsizeMax
    THEN {[st |-> "OOM", ptr |-> 0, calls |-> <<HeapCall("alloc", 0, size, size)>>]}
         \cup (IF bld = "debug" THEN {[st |-> "abort", ptr |-> 0, calls |-> <<>>]} ELSE {})
    ELSE {[st |-> IF a = 0 THEN "OOM" ELSE "live", ptr |-> a,
           calls |-> <<HeapCall("alloc", a, size, size)>>] : a \in Answers(size)}

\* Block::new(size); block.size is the size asked for, also when new fails
Block_new(size, bld) ==
    IF ~is_power_of_two(size)
    THEN {[st |-> "BadRequest", ptr |-> 0, calls |-> <<>>]}
    ELSE alloc_block(size, bld)

MaxSmallSize == 12

\* Values of size: the small sizes, and every power of two of a usize
BlockSizes == 0..MaxSmallSize \cup {2 ^ k : k \in 0..(UsizeBits - 1)}

BlockNew ==
    /\ block.st = "none"
    /\ \E size \in BlockSizes :
          \E r \in Block_new(size, build) :
              /\ block' = [st |-> r.st, ptr |-> r.ptr, size |-> size]
              /\ heap' = heap \o r.calls
    /\ UNCHANGED <<build, scanVars, compVars, vmVars, line_mark, block_mark, cursor, limit,
                   holes, allocs, bumpStatus>>

\* Drop for Block: internal::dealloc_block(self.ptr, self.size), when the
\* owner of a Block goes out of scope
BlockDrop ==
    /\ block.st = "live"
    /\ block' = [block EXCEPT !.st = "dropped"]
    /\ heap' = Append(heap, HeapCall("dealloc", block.ptr, block.size, block.size))
    /\ UNCHANGED <<build, scanVars, compVars, vmVars, line_mark, block_mark, cursor, limit,
                   holes, allocs, bumpStatus>>

----------------------------------------------------------------------------
(* Inputs.                                                                 *)

RECURSIVE StringsUpTo(_, _)
StringsUpTo(alphabet, n) ==
    IF n = 0 THEN {<<>>}
    ELSE LET shorter == StringsUpTo(alphabet, n - 1)
         IN  shorter \cup {Append(s, c) : s \in shorter, c \in alphabet}

WordInputs == StringsUpTo({"c", "i", "f", "a", "1", "_", " ", "("}, MaxWordLen)
TrueInputs == StringsUpTo({"t", "r", "u", "e", " "}, MaxWordLen)
OperatorInputs == StringsUpTo({"!", "=", "-", ">", "<", ":"}, MaxOpLen)
NumberInputs == StringsUpTo({"1", "2", ".", " "}, MaxNumLen)
TextInputs == StringsUpTo({"\"", "\n", "\\", "a", "#", " ", "+"}, MaxTextLen)
MiscInputs == StringsUpTo({"U00E9", "+", "a", "@"}, MaxMiscLen)

ScanInputs ==
    WordInputs \cup TrueInputs \cup OperatorInputs \cup NumberInputs
        \cup TextInputs \cup MiscInputs

Builds == {"debug", "release"}

\* VM::new, and the compiler not yet called
Idle ==
    /\ compStatus = "none"
    /\ compErr = ""
    /\ instructions = <<>>
    /\ constants = <<>>
    /\ stack = <<>>
    /\ ip = 0
    /\ runStatus = "none"
    /\ runErr = ""
    /\ runErrLine = <<>>
    /\ runs = <<>>
    /\ NoRegion

InitScan ==
    /\ build \in Builds
    /\ \E input \in ScanInputs : Scanner_new(input)
    /\ tokens = <<>>
    /\ scanStatus = "scanning"
    /\ scanErr = ""
    /\ Idle

NextScan == ScanStep

SpecScan == InitScan /\ [][NextScan]_vars

\* Inputs that take the loop of scan through numbers, words, comments, line
\* ends, strings and unknown characters
MaxLoopLen == 4

LoopInputs == StringsUpTo({"1", "c", " ", "#", "\n", "\"", "@"}, MaxLoopLen)

InitScanLoop ==
    /\ build \in Builds
    /\ \E input \in LoopInputs : Scanner_new(input)
    /\ tokens = <<>>
    /\ scanStatus = "scanning"
    /\ scanErr = ""
    /\ Idle

\* The loop of scan runs on until it returns or unwinds
SpecScanFair == InitScanLoop /\ [][NextScan]_vars /\ WF_vars(ScanStep)

----------------------------------------------------------------------------
(* Scan, compile and run of one source text.                               *)

MaxExprLen == 6
MaxErrLen == 4

Literals == {<<"1">>, <<"2">>, <<"2", ".", "5">>}

BinaryOperators == {"+", "-", "*", "/"}

\* The arithmetic expressions of at most n characters: number literals,
\* binary + - * /, unary - and parentheses
RECURSIVE Expressions(_)
Expressions(n) ==
    IF n = 0 THEN {}
    ELSE LET E == Expressions(n - 1) IN
         {w \in Literals : Len(w) <= n}
         \cup {<<"-">> \o e : e \in E}
         \cup {<<"(">> \o e \o <<")">> : e \in {x \in E : Len(x) <= n - 2}}
         \cup {x[1] \o <<x[2]>> \o x[3] :
                  x \in {y \in E \X BinaryOperators \X E : Len(y[1]) + Len(y[3]) < n}}

ArithmeticInputs == Expressions(MaxExprLen)

ErrorInputs == StringsUpTo({"1", "+", "-", "(", ")", " "}, MaxErrLen)

Init ==
    /\ build \in Builds
    /\ \E input \in ArithmeticInputs \cup ErrorInputs : Scanner_new(input)
    /\ tokens = <<>>
    /\ scanStatus = "scanning"
    /\ scanErr = ""
    /\ Idle

Next == ScanStep \/ Compile \/ RunStep

Spec == Init /\ [][Next]_vars

\* compile().run(..): once compile has returned, the loop of run goes on
\* until it returns or unwinds
SpecRunFair == Init /\ [][Next]_vars /\ WF_vars(RunStep)

----------------------------------------------------------------------------
(* Scan, compile and run of an arithmetic expression, alone and on the     *)
(* line after a # comment line.                                            *)

MaxCommentedLen == 4

CommentLines == {<<"#", "\n">>, <<"#", "c", "\n">>, <<"#", "1", "\n">>}

CommentedInputs ==
    Expressions(MaxCommentedLen)
    \cup {c \o e : c \in CommentLines, e \in Expressions(MaxCommentedLen)}

InitCommented ==
    /\ build \in Builds
    /\ \E input \in CommentedInputs : Scanner_new(input)
    /\ tokens = <<>>
    /\ scanStatus = "scanning"
    /\ scanErr = ""
    /\ Idle

NextCommented == ScanStep \/ Compile \/ RunStep

SpecCommented == InitCommented /\ [][NextCommented]_vars

----------------------------------------------------------------------------
(* A VM populated by hand with write_constant and write_operation and then *)
(* run, as in vm_test::basic_arithmatic.  The scanner and the compiler     *)
(* take no part; their variables rest in their final values.               *)

MaxRawLen == 3
MaxOps == 3

\* Bytes of a raw instruction stream: some opcodes, and a byte past OpNot
RawBytes ==
    {Opcode.OpReturn, Opcode.OpConstant, Opcode.OpNegate, Opcode.OpNull,
     Opcode.OpNot, Opcode.OpNot + 1}

PoolValues == {Fin(1, 1, 1), Fin(1, 2, 1), Bool(TRUE)}

Pools == [1..2 -> PoolValues]

\* What write_operation calls append for one step of a program: a load of
\* one of the two pool entries, an arithmetic opcode, or OpReturn
Steps ==
    {<<Opcode.OpConstant, 0>>, <<Opcode.OpConstant, 1>>}
    \cup {<<b>> : b \in {Opcode.OpReturn, Opcode.OpNegate, Opcode.OpAdd,
                         Opcode.OpSubtract, Opcode.OpMultiply, Opcode.OpDivide}}

RECURSIVE StepPrograms(_)
StepPrograms(n) ==
    IF n = 0 THEN {<<>>}
    ELSE LET shorter == StepPrograms(n - 1)
         IN  shorter \cup {p \o s : p \in shorter, s \in Steps}

BytePrograms == StringsUpTo(RawBytes, MaxRawLen) \cup StepPrograms(MaxOps)

\* vm.write_operation(code, line) for every byte, the k-th on line k
Written(bytes) == [k \in 1..Len(bytes) |-> [opcode |-> bytes[k], line |-> k]]

InitVM ==
    /\ build \in Builds
    /\ Scanner_new(<<>>)
    /\ tokens = <<>>
    /\ scanStatus = "ok"
    /\ scanErr = ""
    /\ compStatus = "ok"
    /\ compErr = ""
    /\ \E bytes \in BytePrograms : instructions = Written(bytes)
    /\ constants \in Pools
    /\ stack = <<>>
    /\ ip = 0
    /\ runStatus = "none"
    /\ runErr = ""
    /\ runErrLine = <<>>
    /\ runs = <<>>
    /\ NoRegion

NextVM == RunStep

SpecVM == InitVM /\ [][NextVM]_vars

\* The loop of run goes on until it returns or unwinds
SpecVMFair == InitVM /\ [][NextVM]_vars /\ WF_vars(RunStep)

\* The same VMs, run() called up to MaxRuns times on each
NextRerun == RunStep \/ RunAgain

SpecRerun == InitVM /\ [][NextRerun]_vars

----------------------------------------------------------------------------
(* Compiler::new(source, tokens) called with a token vector, compile, run. *)
(* The tokens are those of the compiler module's token.rs (True, False and *)
(* Null included), each spanning its spelling in the source text.          *)

MaxLexemes == 4
MaxBadLexemes == 3
MaxOperators == 2

Lexemes ==
    [Number1 |-> [tt |-> "Number", text |-> <<"1">>],
     Number2 |-> [tt |-> "Number", text |-> <<"2">>],
     Plus |-> [tt |-> "Plus", text |-> <<"+">>],
     Minus |-> [tt |-> "Minus", text |-> <<"-">>],
     Star |-> [tt |-> "Star", text |-> <<"*">>],
     Slash |-> [tt |-> "Slash", text |-> <<"/">>],
     Bang |-> [tt |-> "Bang", text |-> <<"!">>],
     True |-> [tt |-> "True", text |-> <<"t", "r", "u", "e">>],
     False |-> [tt |-> "False", text |-> <<"f", "a", "l", "s", "e">>],
     Null |-> [tt |-> "Null", text |-> <<"n", "u", "l", "l">>],
     LeftParen |-> [tt |-> "LeftParen", text |-> <<"(">>],
     RightParen |-> [tt |-> "RightParen", text |-> <<")">>]]

\* The source text a lexeme sequence spells
RECURSIVE Spelled(_)
Spelled(lexemes) ==
    IF lexemes = <<>> THEN <<>>
    ELSE Spelled(SubSeq(lexemes, 1, Len(lexemes) - 1)) \o lexemes[Len(lexemes)].text

\* Its tokens, all on line 1, closed by the EOF token at the end of the text
Tokenized(lexemes) ==
    [k \in 1..Len(lexemes) + 1 |->
        IF k <= Len(lexemes)
        THEN Scanner_make_token(lexemes[k].tt, Len(lexemes[k].text),
                                Len(Spelled(SubSeq(lexemes, 1, k - 1))), 1)
        ELSE Scanner_make_token("EOF", 0, Len(Spelled(lexemes)), 1)]

\* The expressions of at most n lexemes
RECURSIVE LexemeExpressions(_)
LexemeExpressions(n) ==
    IF n = 0 THEN {}
    ELSE LET E == LexemeExpressions(n - 1)
             L == Lexemes
         IN  {<<L.Number1>>, <<L.Number2>>, <<L.True>>, <<L.False>>, <<L.Null>>}
             \cup {<<u>> \o e : u \in {L.Minus, L.Bang}, e \in E}
             \cup {<<L.LeftParen>> \o e \o <<L.RightParen>> :
                      e \in {x \in E : Len(x) <= n - 2}}
             \cup {x[1] \o <<x[2]>> \o x[3] :
                      x \in {y \in E \X {L.Plus, L.Minus, L.Star, L.Slash} \X E :
                                Len(y[1]) + Len(y[3]) < n}}

BadLexemeInputs ==
    StringsUpTo({Lexemes.Number1, Lexemes.Plus, Lexemes.LeftParen,
                 Lexemes.RightParen, Lexemes.True}, MaxBadLexemes)

\* Number (operator Number)* with at most n binary operators
RECURSIVE BinaryChains(_)
BinaryChains(n) ==
    IF n = 0 THEN {<<Lexemes.Number1>>, <<Lexemes.Number2>>}
    ELSE LET shorter == BinaryChains(n - 1)
         IN  shorter \cup {c \o <<o, x>> :
                              c \in shorter,
                              o \in {Lexemes.Plus, Lexemes.Minus, Lexemes.Star, Lexemes.Slash},
                              x \in {Lexemes.Number1, Lexemes.Number2}}

LexemeInputs ==
    LexemeExpressions(MaxLexemes) \cup BinaryChains(MaxOperators) \cup BadLexemeInputs

InitTokens ==
    /\ build \in Builds
    /\ \E lexemes \in LexemeInputs :
          /\ source = Spelled(lexemes)
          /\ tokens = Tokenized(lexemes)
    /\ line = 1
    /\ start = Len(source) + 1
    /\ scanStatus = "ok"
    /\ scanErr = ""
    /\ Idle

NextTokens == Compile \/ RunStep

SpecTokens == InitTokens /\ [][NextTokens]_vars

----------------------------------------------------------------------------
(* The literals of one compilation unit, added to the VM one by one:       *)
(* Compiler::number ends in add_constant, which calls write_constant and   *)
(* emits OpConstant and the returned index.  The k-th literal is the       *)
(* number k.                                                               *)

MaxExtraLiterals == 2

Literal(k) == Fin(1, k, 1)

\* The compiler in the middle of compile(), on the token after a literal
Compiling ==
    [Compiler_new(source, tokens) EXCEPT
        !.index = 1, !.ins = instructions, !.consts = constants]

InitPool ==
    /\ build \in Builds
    /\ source = Spelled(<<Lexemes.Number1>>)
    /\ tokens = Tokenized(<<Lexemes.Number1>>)
    /\ line = 1
    /\ start = Len(source) + 1
    /\ scanStatus = "ok"
    /\ scanErr = ""
    /\ compStatus = "compiling"
    /\ compErr = ""
    /\ instructions = <<>>
    /\ constants = <<>>
    /\ stack = <<>>
    /\ ip = 0
    /\ runStatus = "none"
    /\ runErr = ""
    /\ runErrLine = <<>>
    /\ runs = <<>>
    /\ NoRegion

\* self.add_constant(Value::Number(value)) for the next literal
AddLiteral ==
    /\ compStatus = "compiling"
    /\ Len(constants) < U8Modulus + MaxExtraLiterals
    /\ LET r == Compiler_add_constant(Compiling, Literal(Len(constants) + 1)) IN
       /\ instructions' = r.ins
       /\ constants' = r.consts
    /\ UNCHANGED <<build, scanVars, compVars, stack, ip, runStatus, runErr, runErrLine, runs,
                   memVars>>

NextPool == AddLiteral

SpecPool == InitPool /\ [][NextPool]_vars

----------------------------------------------------------------------------
(* The region allocator on its own: the scanner, the compiler and the VM   *)
(* take no part and rest as they are constructed.                          *)

NoProgram ==
    /\ Scanner_new(<<>>)
    /\ tokens = <<>>
    /\ scanStatus = "scanning"
    /\ scanErr = ""
    /\ compStatus = "none"
    /\ compErr = ""
    /\ instructions = <<>>
    /\ constants = <<>>
    /\ stack = <<>>
    /\ ip = 0
    /\ runStatus = "none"
    /\ runErr = ""
    /\ runErrLine = <<>>
    /\ runs = <<>>

\* Block::new and the drop of the Block
InitBlock ==
    /\ build \in Builds
    /\ NoProgram
    /\ NoRegion

NextBlock == BlockNew \/ BlockDrop

SpecBlock == InitBlock /\ [][NextBlock]_vars

\* find_next_available_hole on a BlockMeta whose lines the mark phase has set
InitHole ==
    /\ build \in Builds
    /\ NoProgram
    /\ line_mark \in LineMarks
    /\ block_mark = FALSE
    /\ cursor = 0
    /\ limit = 0
    /\ holes = <<>>
    /\ allocs = <<>>
    /\ bumpStatus = "ready"
    /\ block = NoBlock
    /\ heap = <<>>

NextHole == FindHole

SpecHole == InitHole /\ [][NextHole]_vars

\* A BumpBlock: a Block of BLOCK_SIZE bytes, its BlockMeta, and as its
\* allocation window a hole of its line marks
BumpWindows(marks) ==
    {w \in {BlockMeta_find_next_available_hole(marks, 0).hole} : w.some}

\* Blocks with at most one line marked
BumpMarks == {m \in LineMarks : Cardinality(m) <= 1}

InitBump ==
    /\ build \in Builds
    /\ NoProgram
    /\ line_mark \in BumpMarks
    /\ block_mark = FALSE
    /\ \E w \in BumpWindows(line_mark) : cursor = w.cursor /\ limit = w.limit
    /\ holes = <<>>
    /\ allocs = <<>>
    /\ bumpStatus = "ready"
    /\ \E r \in {x \in Block_new(BLOCK_SIZE, build) : x.st = "live"} :
          /\ block = [st |-> r.st, ptr |-> r.ptr, size |-> BLOCK_SIZE]
          /\ heap = r.calls

NextBump == InnerAlloc

SpecBump == InitBump /\ [][NextBump]_vars

----------------------------------------------------------------------------
(* Reference semantics of the expression language, independent of the      *)
(* compiler: the value under standard precedence, and the token grammar.   *)

Val(v, pos) == [v |-> v, pos |-> pos]

RECURSIVE LiteralEnd(_, _)
\* 1-based index just past the number literal that starts at p
LiteralEnd(src, p) ==
    IF p <= Len(src) /\ (is_ascii_digit(src[p]) \/ src[p] = ".")
    THEN LiteralEnd(src, p + 1) ELSE p

RECURSIVE StdSum(_, _)
RECURSIVE StdSumLoop(_, _, _)
RECURSIVE StdProduct(_, _)
RECURSIVE StdProductLoop(_, _, _)
RECURSIVE StdOperand(_, _)

\* operand := '-' operand | '(' sum ')' | literal
StdOperand(src, p) ==
    CASE src[p] = "-" -> LET r == StdOperand(src, p + 1) IN Val(F64Neg(r.v), r.pos)
      [] src[p] = "(" -> LET r == StdSum(src, p + 1) IN Val(r.v, r.pos + 1)
      [] OTHER -> LET e == LiteralEnd(src, p) IN Val(ParseF64(SubSeq(src, p, e - 1)), e)

\* product := operand (('*' | '/') operand)*, folded from the left
StdProductLoop(src, acc, p) ==
    IF p <= Len(src) /\ src[p] \in {"*", "/"}
    THEN LET r == StdOperand(src, p + 1) IN
         StdProductLoop(src, IF src[p] = "*" THEN F64Mul(acc, r.v) ELSE F64Div(acc, r.v), r.pos)
    ELSE Val(acc, p)

StdProduct(src, p) == LET r == StdOperand(src, p) IN StdProductLoop(src, r.v, r.pos)

\* sum := product (('+' | '-') product)*, folded from the left
StdSumLoop(src, acc, p) ==
    IF p <= Len(src) /\ src[p] \in {"+", "-"}
    THEN LET r == StdProduct(src, p + 1) IN
         StdSumLoop(src, IF src[p] = "+" THEN F64Add(acc, r.v) ELSE F64Sub(acc, r.v), r.pos)
    ELSE Val(acc, p)

StdSum(src, p) == LET r == StdProduct(src, p) IN StdSumLoop(src, r.v, r.pos)

StdEval(src) == StdSum(src, 1).v

RECURSIVE GrammarExpression(_, _)
RECURSIVE GrammarOperand(_, _)

\* Index just past the operand that starts at token i, 0 if there is none:
\* operand := ('-' | '!') operand | '(' expression ')' | Number | false | true | null
GrammarOperand(toks, i) ==
    IF i > Len(toks) THEN 0
    ELSE CASE toks[i].tt \in {"Minus", "Bang"} -> GrammarOperand(toks, i + 1)
           [] toks[i].tt \in {"Number", "False", "True", "Null"} -> i + 1
           [] toks[i].tt = "LeftParen" ->
                  LET j == GrammarExpression(toks, i + 1) IN
                  IF j # 0 /\ j <= Len(toks) /\ toks[j].tt = "RightParen" THEN j + 1 ELSE 0
           [] OTHER -> 0

\* expression := operand (('+' | '-' | '*' | '/') operand)*
GrammarExpression(toks, i) ==
    LET j == GrammarOperand(toks, i) IN
    IF j # 0 /\ j <= Len(toks) /\ toks[j].tt \in {"Plus", "Minus", "Star", "Slash"}
    THEN GrammarExpression(toks, j + 1)
    ELSE j

\* The tokens are one expression followed by EOF
WellFormed(toks) ==
    LET j == GrammarExpression(toks, 1) IN
    j # 0 /\ j = Len(toks) /\ toks[j].tt = "EOF"

----------------------------------------------------------------------------
(* Claims about the compiler and the VM, checked under Spec.               *)

\* C1: for an arithmetic expression of number literals, binary + - * /, unary -
\* and parentheses, the value on top of the operand stack after scan, compile
\* and run is the value of the expression under standard precedence (unary
\* minus tightest, then * and /, then + and -, equal precedence to the left).
C1_ResultIsStandardValue ==
    (source \in ArithmeticInputs /\ runStatus = "ok")
        => /\ Len(stack) >= 1
           /\ stack[Len(stack)] = StdEval(source)

----------------------------------------------------------------------------
(* Vocabulary of the scanner claims.                                       *)

\* The characters of a token's span, empty when the span leaves the buffer
Lexeme(src, t) ==
    IF t.start + t.length <= Len(src)
    THEN SubSeq(src, t.start + 1, t.start + t.length)
    ELSE <<>>

IsWordChar(c) == c # NoChar /\ (is_alphanumeric(c) \/ c = "_")

\* No string literal and no comment: every character is at lexical top level
LexicallyPlain(src) == \A i \in 1..Len(src) : src[i] \notin {"\"", "#"}

\* src[i..j] (1-based) is a maximal run of word characters that starts a word
MaximalWord(src, i, j) ==
    /\ 1 <= i /\ i <= j /\ j <= Len(src)
    /\ \A p \in i..j : IsWordChar(src[p])
    /\ is_alphabetic(src[i]) \/ src[i] = "_"
    /\ i = 1 \/ ~IsWordChar(src[i - 1])
    /\ j = Len(src) \/ ~IsWordChar(src[j + 1])

KeywordWords == {KeywordSpelling[k] : k \in KeywordTypes}

\* src spells w from the 1-based position i, at the start of a word
SpellsAt(src, i, w) ==
    /\ i + Len(w) - 1 <= Len(src)
    /\ SubSeq(src, i, i + Len(w) - 1) = w
    /\ i = 1 \/ ~IsWordChar(src[i - 1])

Count(src, c) == Cardinality({i \in 1..Len(src) : src[i] = c})

TwoCharTypes ==
    {"BangEqual", "Arrow", "LessEqual", "GreaterEqual", "DoubleColon", "DoubleEqual"}

----------------------------------------------------------------------------
(* Claims about the scanner, checked under SpecScan.                       *)

\* C3: scan never panics, and a source that opens a string literal which is
\* never closed makes scan return the MissingDoubleQuote error.
C3_ScanNeverPanics ==
    /\ scanStatus # "panic"
    /\ (/\ scanStatus # "scanning"
        /\ Len(source) > 0
        /\ source[1] = "\""
        /\ \A i \in 2..Len(source) : source[i] # "\"")
       => (scanStatus = "err" /\ scanErr = "MissingDoubleQuote")

\* C4: every token of a successful scan, EOF included, has
\* start + length <= the length of the source buffer.
C4_TokenSpansInRange ==
    scanStatus = "ok" =>
        \A k \in 1..Len(tokens) : tokens[k].start + tokens[k].length <= Len(source)

\* C5: every maximal word (letters, digits, underscores, starting with a letter
\* or underscore) that is not a keyword is scanned as exactly one Identifier
\* token whose span is the whole word.
C5_IdentifierCoversWord ==
    (scanStatus = "ok" /\ LexicallyPlain(source)) =>
        \A i \in 1..Len(source) : \A j \in i..Len(source) :
            (MaximalWord(source, i, j) /\ SubSeq(source, i, j) \notin KeywordWords) =>
                /\ \E k \in 1..Len(tokens) :
                       /\ tokens[k].tt = "Identifier"
                       /\ tokens[k].start = i - 1
                       /\ tokens[k].length = j - i + 1
                /\ Cardinality({k \in 1..Len(tokens) :
                       /\ tokens[k].start < j
                       /\ tokens[k].start + tokens[k].length > i - 1}) = 1

\* C6: a two-character operator is one token of length 2, its second character
\* is not scanned again, and emitted tokens never overlap in the source.
C6_TwoCharOperatorOnce ==
    \A k \in 1..Len(tokens) :
        /\ tokens[k].tt \in TwoCharTypes => tokens[k].length = 2
        /\ k < Len(tokens) =>
               tokens[k + 1].start >= tokens[k].start + tokens[k].length

\* C7: a word that spells a keyword is emitted as that keyword token if and
\* only if whitespace or the end of input follows it; otherwise exactly one
\* Identifier token starts at its first character, and no keyword token.
C7_KeywordIffDelimited ==
    (scanStatus = "ok" /\ LexicallyPlain(source)) =>
        /\ \A kw \in KeywordTypes : \A i \in 1..Len(source) :
               SpellsAt(source, i, KeywordSpelling[kw]) =>
                   LET n == Len(KeywordSpelling[kw])
                       follow == Get(source, i - 1 + n)
                       asKeyword == {k \in 1..Len(tokens) :
                                        /\ tokens[k].tt = kw
                                        /\ tokens[k].start = i - 1
                                        /\ tokens[k].length = n}
                       asIdentifier == {k \in 1..Len(tokens) :
                                           /\ tokens[k].tt = "Identifier"
                                           /\ tokens[k].start = i - 1}
                   IN  IF follow = NoChar \/ is_whitespace(follow)
                       THEN Cardinality(asKeyword) = 1 /\ asIdentifier = {}
                       ELSE Cardinality(asIdentifier) = 1 /\ asKeyword = {}
        /\ \A k \in 1..Len(tokens) :
               tokens[k].tt \in KeywordTypes =>
                   /\ Lexeme(source, tokens[k]) = KeywordSpelling[tokens[k].tt]
                   /\ LET follow == Get(source, tokens[k].start + tokens[k].length)
                      IN  follow = NoChar \/ is_whitespace(follow)

IsNumberLexeme(w) ==
    /\ Len(w) >= 1
    /\ is_ascii_digit(w[1])
    /\ \A p \in 1..Len(w) : is_ascii_digit(w[p]) \/ w[p] = "."
    /\ Count(w, ".") <= 1

\* C8: a Number token is a maximal run of digits, optionally followed by one
\* '.' and a maximal run of digits; a second '.' is not part of it and is
\* scanned as a Dot token of its own, and the scan of digits '.' digits '.'
\* digits ends with exactly Number, Dot, Number (then EOF), tiling the input.
C8_NumberSpan ==
    /\ \A k \in 1..Len(tokens) :
           tokens[k].tt = "Number" =>
               LET t == tokens[k]
                   w == Lexeme(source, t)
                   before == Get(source, t.start - 1)
                   after == Get(source, t.start + t.length)
               IN  /\ t.start + t.length <= Len(source)
                   /\ IsNumberLexeme(w)
                   /\ ~is_ascii_digit(before)
                   /\ ~is_ascii_digit(after)
                   /\ Count(w, ".") = 0 => after # "."
                   /\ (after = "." /\ k < Len(tokens)) =>
                          /\ tokens[k + 1].tt = "Dot"
                          /\ tokens[k + 1].start = t.start + t.length
                          /\ tokens[k + 1].length = 1
    /\ (/\ scanStatus # "scanning"
        /\ \E a, b \in 1..Len(source) :
               /\ a + 2 < b /\ b < Len(source)
               /\ \A p \in 1..Len(source) :
                      IF p \in {a + 1, b} THEN source[p] = "."
                      ELSE is_ascii_digit(source[p]))
       => /\ [k \in 1..Len(tokens) |-> tokens[k].tt] = <<"Number", "Dot", "Number", "EOF">>
          /\ tokens[1].start = 0
          /\ tokens[2].start = tokens[1].length
          /\ tokens[3].start = tokens[2].start + 1
          /\ tokens[3].start + tokens[3].length = Len(source)

\* C9: a token right after a string literal that contains k newlines carries
\* a line number k higher than the line on which the literal began.
C9_StringNewlinesCounted ==
    \A k \in 1..(Len(tokens) - 1) :
        (/\ tokens[k].tt = "String"
         /\ tokens[k + 1].tt # "NL"
         /\ tokens[k + 1].start = tokens[k].start + tokens[k].length + 1) =>
            tokens[k + 1].line = tokens[k].line + Count(Lexeme(source, tokens[k]), "\n")

\* The 1-based positions inside a # comment, the # included, the newline not
RECURSIVE InComment(_, _)
InComment(src, i) ==
    /\ i >= 1
    /\ src[i] # "\n"
    /\ src[i] = "#" \/ InComment(src, i - 1)

\* C10: outside string literals every newline, also the one that ends a
\* comment, yields exactly one NL token; no other whitespace and no comment
\* text yields a token.
C10_NewlineTokens ==
    (scanStatus = "ok" /\ \A i \in 1..Len(source) : source[i] # "\"") =>
        /\ \A i \in 1..Len(source) :
               source[i] = "\n" =>
                   Cardinality({k \in 1..Len(tokens) :
                       tokens[k].tt = "NL" /\ tokens[k].start = i - 1}) = 1
        /\ \A k \in 1..Len(tokens) :
               tokens[k].tt = "NL" => Lexeme(source, tokens[k]) = <<"\n">>
        /\ \A k \in 1..Len(tokens) : \A i \in 1..Len(source) :
               (/\ tokens[k].tt \notin {"NL", "EOF"}
                /\ tokens[k].start < i
                /\ i <= tokens[k].start + tokens[k].length) =>
                   (~is_whitespace(source[i]) /\ ~InComment(source, i))

----------------------------------------------------------------------------
(* Claims about the scan loop, checked under SpecScanFair.                 *)

\* C11: scan terminates on every input, the scan position strictly increases
\* with every iteration of its loop, and whenever scan returns Ok the tokens
\* hold exactly one EOF token, the last one.
C11_ScanTerminates ==
    /\ <>(scanStatus # "scanning")
    /\ [][scanStatus' \in {"scanning", "ok"} => start' > start]_vars
    /\ [](scanStatus = "ok" =>
              /\ Len(tokens) > 0
              /\ \A k \in 1..Len(tokens) : tokens[k].tt = "EOF" <=> k = Len(tokens))

\* The scan of a comment line followed by " 1" has returned Ok with Number, EOF
C11_Witness ==
    /\ scanStatus = "ok"
    /\ source = <<"#", "\n", " ", "1">>
    /\ [k \in 1..Len(tokens) |-> tokens[k].tt] = <<"Number", "EOF">>
    /\ start > Len(source)

----------------------------------------------------------------------------
(* Claims about the compiler's output, checked under SpecTokens, and about *)
(* the constant pool, checked under SpecPool.                              *)

ConstItem(v) == [opcode |-> Opcode.OpConstant, value |-> v]

OpItem(code) == [opcode |-> code]

\* The compiled stream read from entry k on, a load together with the
\* constant its operand entry selects
RECURSIVE Disassembled(_, _, _)
Disassembled(ins, consts, k) ==
    IF k > Len(ins) THEN <<>>
    ELSE IF /\ ins[k].opcode = Opcode.OpConstant
            /\ k < Len(ins)
            /\ ins[k + 1].opcode < Len(consts)
    THEN <<ConstItem(consts[ins[k + 1].opcode + 1])>> \o Disassembled(ins, consts, k + 2)
    ELSE <<OpItem(ins[k].opcode)>> \o Disassembled(ins, consts, k + 1)

\* Entries in opcode position: not the operand entry after an OpConstant
RECURSIVE OpcodePositions(_, _)
OpcodePositions(ins, k) ==
    IF k > Len(ins) THEN {}
    ELSE {k} \cup OpcodePositions(ins, IF ins[k].opcode = Opcode.OpConstant
                                       THEN k + 2 ELSE k + 1)

TokenValue(src, tok) == ParseF64(SubSeq(src, tok.start + 1, tok.start + tok.length))

TokenTypes(toks) == [k \in 1..Len(toks) |-> toks[k].tt]

\* Number (operator Number)* EOF
BinaryOnly(toks) ==
    /\ Len(toks) % 2 = 0
    /\ toks[Len(toks)].tt = "EOF"
    /\ \A k \in 1..Len(toks) - 1 :
           IF k % 2 = 1 THEN toks[k].tt = "Number"
           ELSE toks[k].tt \in {"Plus", "Minus", "Star", "Slash"}

BinaryOpcode(tt) ==
    CASE tt = "Plus" -> Opcode.OpAdd
      [] tt = "Minus" -> Opcode.OpSubtract
      [] tt = "Star" -> Opcode.OpMultiply
      [] tt = "Slash" -> Opcode.OpDivide

\* Postfix of product := Number (('*' | '/') Number)*, from token i: the items
\* and the index of the token after the product
RECURSIVE PostfixProduct(_, _, _, _)
PostfixProduct(src, toks, i, items) ==
    IF toks[i].tt \in {"Star", "Slash"}
    THEN PostfixProduct(src, toks, i + 2,
                        items \o <<ConstItem(TokenValue(src, toks[i + 1])),
                                   OpItem(BinaryOpcode(toks[i].tt))>>)
    ELSE [items |-> items, next |-> i]

\* Postfix of sum := product (('+' | '-') product)*
RECURSIVE PostfixSum(_, _, _, _)
PostfixSum(src, toks, i, items) ==
    IF toks[i].tt \in {"Plus", "Minus"}
    THEN LET p == PostfixProduct(src, toks, i + 2,
                                 <<ConstItem(TokenValue(src, toks[i + 1]))>>)
         IN  PostfixSum(src, toks, p.next,
                        items \o p.items \o <<OpItem(BinaryOpcode(toks[i].tt))>>)
    ELSE items

Postfix(src, toks) ==
    LET p == PostfixProduct(src, toks, 2, <<ConstItem(TokenValue(src, toks[1]))>>)
    IN  PostfixSum(src, toks, p.next, p.items)

\* C12: for an expression of number literals and binary + - * / only, the
\* compiler emits operands and operators in the postfix order of the parse
\* in which * and / bind tighter than + and - and equal precedence
\* associates to the left (a - b - c: a, b, Subtract, c, Subtract).
C12_PostfixOrder ==
    (compStatus # "none" /\ BinaryOnly(tokens))
        => /\ compStatus = "ok"
           /\ Disassembled(instructions, constants, 1)
                  = Postfix(source, tokens) \o <<OpItem(Opcode.OpReturn)>>

\* 1 - 2 - 1 has been compiled to 1, 2, Subtract, 1, Subtract, Return
C12_Witness ==
    /\ compStatus = "ok"
    /\ source = <<"1", "-", "2", "-", "1">>
    /\ Disassembled(instructions, constants, 1)
           = <<ConstItem(Fin(1, 1, 1)), ConstItem(Fin(1, 2, 1)),
               OpItem(Opcode.OpSubtract), ConstItem(Fin(1, 1, 1)),
               OpItem(Opcode.OpSubtract), OpItem(Opcode.OpReturn)>>

\* C13: the constant pool never holds more than 256 values, and the operand
\* entry after every OpConstant is the pool index of the literal just added:
\* the k-th load of the unit selects the k-th literal.
C13_PoolWithinU8 ==
    /\ Len(constants) <= U8Modulus
    /\ \A k \in 1..(Len(instructions) \div 2) :
           /\ instructions[2 * k - 1].opcode = Opcode.OpConstant
           /\ instructions[2 * k].opcode = k - 1
           /\ constants[instructions[2 * k].opcode + 1] = Literal(k)

\* C14: when compile succeeds the last entry of the instruction stream is
\* OpReturn, and no other entry in opcode position is OpReturn.
C14_ReturnLast ==
    compStatus = "ok"
        => /\ Len(instructions) > 0
           /\ instructions[Len(instructions)].opcode = Opcode.OpReturn
           /\ \A k \in OpcodePositions(instructions, 1) :
                  instructions[k].opcode = Opcode.OpReturn => k = Len(instructions)

\* The literal 1 has been compiled: OpConstant, operand 0, OpReturn
C14_Witness ==
    /\ compStatus = "ok"
    /\ source = <<"1">>
    /\ [k \in 1..Len(instructions) |-> instructions[k].opcode]
           = <<Opcode.OpConstant, 0, Opcode.OpReturn>>

\* C17: the streams compiled for !true, !false and !null run to Ok with
\* false, true and null on top of the stack.
C17_NotOfLiterals ==
    \A literal \in {"True", "False", "Null"} :
        (/\ TokenTypes(tokens) = <<"Bang", literal, "EOF">>
         /\ runStatus \notin {"none", "running"})
            => /\ runStatus = "ok"
               /\ Len(stack) > 0
               /\ stack[Len(stack)] = CASE literal = "True" -> Bool(FALSE)
                                        [] literal = "False" -> Bool(TRUE)
                                        [] literal = "Null" -> Null

----------------------------------------------------------------------------
(* Claims about the VM, checked under SpecVM.                              *)

\* The opcode run is about to execute, -1 when there is none
OpcodeAtIp == IF ip < Len(instructions) THEN instructions[ip + 1].opcode ELSE -1

Executing(opcodes) ==
    /\ compStatus = "ok"
    /\ runStatus \in {"none", "running"}
    /\ OpcodeAtIp \in opcodes

BinaryOpcodes == {Opcode.OpAdd, Opcode.OpSubtract, Opcode.OpMultiply, Opcode.OpDivide}

IsNumber(v) == v.t = "Number"

\* C15: a binary opcode executed on a stack with Number x below Number y (y on
\* top) replaces both by x + y, x - y, x * y or x / y, the second-popped value
\* being the left operand, and so lowers the stack depth by exactly one.
C15_BinaryOperandOrder ==
    [][(/\ Executing(BinaryOpcodes)
        /\ Len(stack) >= 2
        /\ IsNumber(stack[Len(stack)])
        /\ IsNumber(stack[Len(stack) - 1]))
       => LET x == stack[Len(stack) - 1]
              y == stack[Len(stack)]
              op == OpcodeAtIp
              result == CASE op = Opcode.OpAdd -> F64Add(x, y)
                          [] op = Opcode.OpSubtract -> F64Sub(x, y)
                          [] op = Opcode.OpMultiply -> F64Mul(x, y)
                          [] op = Opcode.OpDivide -> F64Div(x, y)
          IN  /\ stack' = Append(SubSeq(stack, 1, Len(stack) - 2), result)
              /\ Len(stack') = Len(stack) - 1
              /\ runStatus' = "running"]_vars

\* 1 - 2 has been executed: the stack holds -1, not 1
C15_Witness ==
    /\ constants = <<Fin(1, 1, 1), Fin(1, 2, 1)>>
    /\ [k \in 1..Len(instructions) |-> instructions[k].opcode]
           = <<Opcode.OpConstant, 0, Opcode.OpConstant, 1, Opcode.OpSubtract>>
    /\ ip = Len(instructions)
    /\ runStatus = "running"
    /\ stack = <<Fin(-1, 1, 1)>>

\* C16: a binary arithmetic opcode executed when either of the two topmost
\* stack values is not a Number, and Negate executed when the top value is
\* not a Number, abort run() with a runtime type error; the instruction is
\* never skipped with execution continuing.
C16_TypeErrorAborts ==
    [][(\/ /\ Executing(BinaryOpcodes)
           /\ Len(stack) >= 2
           /\ ~(IsNumber(stack[Len(stack)]) /\ IsNumber(stack[Len(stack) - 1]))
        \/ /\ Executing({Opcode.OpNegate})
           /\ Len(stack) >= 1
           /\ ~IsNumber(stack[Len(stack)]))
       => (runStatus' = "err" /\ runErr' = "Runtime")]_vars

\* C18: when the byte in opcode position at the instruction pointer is no
\* opcode, run returns the InvalidOpcodeConversion error value; it does not
\* panic.
C18_InvalidOpcodeReturned ==
    [][(/\ Executing(RawBytes)
        /\ OpcodeAtIp > Opcode.OpNot)
       => (runStatus' = "err" /\ runErr' = "InvalidOpcodeConversion")]_vars

\* C19: Negate or Not executed on an empty stack, and a binary arithmetic
\* opcode executed on a stack of fewer than two values, make run return the
\* EmptyStack error value rather than crash.
C19_EmptyStackReturned ==
    [][(\/ /\ Executing({Opcode.OpNegate, Opcode.OpNot})
           /\ Len(stack) = 0
        \/ /\ Executing(BinaryOpcodes)
           /\ Len(stack) < 2)
       => (runStatus' = "err" /\ runErr' = "EmptyStack")]_vars

\* C20: every error run returns (type error, empty stack, invalid opcode,
\* missing return) carries the source line recorded in the Operation at
\* which execution failed.
C20_ErrorCarriesLine ==
    runStatus = "err"
        => /\ ip < Len(instructions)
           /\ runErrLine = <<instructions[ip + 1].line>>

----------------------------------------------------------------------------
(* Claims about calling run() again, checked under SpecRerun, and about    *)
(* the loop of run, checked under SpecVMFair.                              *)

\* The operand stack and the pointer a call of run() left when it returned
StackAndIp(returned) == <<returned.stack, returned.ip>>

\* C21: a second run() on a VM whose first run() has returned changes the
\* operand stack or the instruction pointer, so that the VM state after
\* run;run differs from the state after a single run.
C21_SecondRunChangesState ==
    Len(runs) >= 2 => StackAndIp(runs[2]) # StackAndIp(runs[1])

\* C21 as amended: every later run() on a VM whose first run() has returned
\* leaves the operand stack and the instruction pointer as the first run
\* left them and returns the same result; and no pass of a later run
\* changes either.
C21_SecondRunChangesNothing ==
    /\ [](\A k \in 2..Len(runs) : runs[k] = runs[1])
    /\ [][Len(runs) >= 1 => (stack' = stack /\ ip' = ip)]_vars

\* 1 2 Return has been run twice, both runs returning Ok with 1 and 2 on
\* the stack and the pointer on the Return
C21_Witness ==
    /\ [k \in 1..Len(instructions) |-> instructions[k].opcode]
           = <<Opcode.OpConstant, 0, Opcode.OpConstant, 1, Opcode.OpReturn>>
    /\ Len(runs) = 2
    /\ runs[1].st = "ok"
    /\ Len(stack) = 2
    /\ ip = 4

----------------------------------------------------------------------------
(* Claims about running compiled code, checked under SpecRunFair.          *)

\* C29: for every source of number literals, binary + - * /, unary - and
\* parentheses that compiles, run() on the produced VM returns Ok without a
\* runtime error, halted on the final OpReturn with exactly one value on the
\* stack; no opcode of the run finds fewer operands than it needs, and
\* every OpConstant operand is a valid index into the constant pool.
C29_CompiledCodeRuns ==
    /\ [](compStatus = "ok" => runStatus \in {"none", "running", "ok"})
    /\ (compStatus = "ok" ~> runStatus = "ok")
    /\ [](runStatus = "ok" =>
              /\ ip = Len(instructions) - 1
              /\ instructions[ip + 1].opcode = Opcode.OpReturn
              /\ runErr = ""
              /\ Len(stack) = 1)
    /\ [](Executing(BinaryOpcodes) => Len(stack) >= 2)
    /\ [](Executing({Opcode.OpNegate}) => Len(stack) >= 1)
    /\ [](Executing({Opcode.OpConstant}) =>
              /\ ip + 1 < Len(instructions)
              /\ instructions[ip + 2].opcode < Len(constants))

\* -(1+2) has been compiled and run: Ok, on the OpReturn, with -3 alone on
\* the stack
C29_Witness ==
    /\ source = <<"-", "(", "1", "+", "2", ")">>
    /\ compStatus = "ok"
    /\ runStatus = "ok"
    /\ instructions[ip + 1].opcode = Opcode.OpReturn
    /\ stack = <<Fin(-1, 3, 1)>>

----------------------------------------------------------------------------
(* Claims about a comment line before an expression, checked under         *)
(* SpecCommented.                                                          *)

\* The source starts with a # comment line
Commented(src) == Len(src) > 0 /\ src[1] = "#" /\ \E k \in 1..Len(src) : src[k] = "\n"

\* What follows the first line
AfterFirstLine(src) ==
    LET nl == CHOOSE k \in 1..Len(src) :
                  src[k] = "\n" /\ \A j \in 1..(k - 1) : src[j] # "\n"
    IN  SubSeq(src, nl + 1, Len(src))

\* Scanner::scan of a text from its start: the tokens when it returns Ok
RECURSIVE ScanLoop(_, _, _, _, _)
ScanLoop(src, st, ln, toks, bld) ==
    IF Scanner_end_of_file(toks) THEN [st |-> "ok", tokens |-> toks]
    ELSE LET t == Scanner_scan_token(src, st, ln) IN
         IF t.res = "err" THEN [st |-> "err", tokens |-> toks]
         ELSE IF t.uf /\ bld = "debug" THEN [st |-> "panic", tokens |-> toks]
         ELSE ScanLoop(src, t.start + 1, t.line, Append(toks, t.tok), bld)

Opcodes(ins) == [k \in 1..Len(ins) |-> ins[k].opcode]

\* The Number tokens of a token vector, in order
NumberTokens(toks) == SelectSeq(toks, LAMBDA t : t.tt = "Number")

\* C28: compiling a source whose arithmetic expression is preceded by a #
\* comment line yields the constant pool and the instruction opcodes that
\* compiling the expression alone yields, every Number token being read as
\* the characters at [start, start + length) of the buffer the scanner
\* indexed.
C28_CommentLineIgnored ==
    (Commented(source) /\ compStatus \in {"ok", "panic"}) =>
        LET expr == AfterFirstLine(source)
            scanned == ScanLoop(expr, 0, 1, <<>>, build)
            alone == Compiler_compile(Compiler_new(expr, scanned.tokens))
            numbers == NumberTokens(tokens)
        IN  (scanned.st = "ok" /\ alone.st = "ok") =>
                /\ compStatus = "ok"
                /\ constants = alone.consts
                /\ Opcodes(instructions) = Opcodes(alone.ins)
                /\ constants = [k \in 1..Len(numbers) |-> TokenValue(source, numbers[k])]

----------------------------------------------------------------------------
(* Claims about find_next_available_hole, checked under SpecHole.          *)

\* The line that contains a byte offset
LineOf(offset) == offset \div LINE_SIZE

Unmarked(k) == k \in 0..(LINE_COUNT - 1) /\ k \notin line_mark

\* The calls of find_next_available_hole made so far
HoleCalls == {holes[k] : k \in 1..Len(holes)}

\* C23: find_next_available_hole(0) on a block whose 256 lines are all
\* unmarked returns the hole (LINE_SIZE, BLOCK_SIZE) = (128, 32768), line 0
\* being skipped.
C23_UnmarkedBlockSkipsLineZero ==
    \A call \in HoleCalls :
        (line_mark = {} /\ call.starting_at = 0)
            => (call.st = "ok" /\ call.hole = Some(LINE_SIZE, BLOCK_SIZE))

\* C23 as amended: find_next_available_hole(0) on a block whose 256 lines
\* are all unmarked returns the hole (0, BLOCK_SIZE) = (0, 32768): line 0 is
\* not skipped, and the hole is the whole block.
C23_UnmarkedBlockIsOneHole ==
    \A call \in HoleCalls :
        (line_mark = {} /\ call.starting_at = 0)
            => (call.st = "ok" /\ call.hole = Some(0, BLOCK_SIZE))

\* find_next_available_hole(0) has been called on a block without marks
C23_Witness ==
    /\ line_mark = {}
    /\ holes # <<>>
    /\ holes[1].starting_at = 0
    /\ holes[1].hole.some

\* C24: an unmarked line is left out of the returned hole only when it
\* immediately follows a marked line and is not line 0: a scan that starts
\* at an unmarked line k > 0 whose predecessor is unmarked too returns a hole
\* that starts at line k, and a scan that starts at unmarked line 0 returns
\* a hole that starts at line 0.
C24_OnlyLineAfterMarkSkipped ==
    \A call \in HoleCalls :
        LET k == LineOf(call.starting_at) IN
        (Unmarked(k) /\ (k = 0 \/ Unmarked(k - 1)))
            => (call.st = "ok" /\ call.hole.some /\ call.hole.cursor = k * LINE_SIZE)

\* C25: for every line-mark array and every starting_at below BLOCK_SIZE a
\* returned hole (cursor, limit) has both ends on line boundaries, cursor <
\* limit <= BLOCK_SIZE, holds only unmarked lines at or after the line of
\* starting_at, and is closed by a marked line or the block's end; when
\* every line from the starting line on is marked, the result is none.
C25_HoleWellFormed ==
    \A call \in HoleCalls :
        call.starting_at < BLOCK_SIZE =>
            LET starting_line == LineOf(call.starting_at)
                c == call.hole.cursor
                l == call.hole.limit
            IN  /\ call.st = "ok"
                /\ call.hole.some =>
                       /\ c % LINE_SIZE = 0
                       /\ l % LINE_SIZE = 0
                       /\ c < l
                       /\ l <= BLOCK_SIZE
                       /\ \A k \in LineOf(c)..(LineOf(l) - 1) :
                              Unmarked(k) /\ k >= starting_line
                       /\ (l = BLOCK_SIZE \/ LineOf(l) \in line_mark)
                /\ (\A k \in starting_line..(LINE_COUNT - 1) : k \in line_mark)
                       => ~call.hole.some

\* With lines 0 and 4 marked, the search from offset 0 has returned the hole
\* of lines 2 and 3, line 1 being skipped
C25_Witness ==
    /\ line_mark = {0, 4}
    /\ holes = <<[starting_at |-> 0, st |-> "ok",
                  hole |-> Some(2 * LINE_SIZE, 4 * LINE_SIZE)]>>

----------------------------------------------------------------------------
(* Claims about inner_alloc, checked under SpecBump.                       *)

\* The calls of inner_alloc that returned an address
Handed == {k \in 1..Len(allocs) : allocs[k].st = "some"}

\* C26: inner_alloc(n) succeeds exactly when cursor + n <= BLOCK_SIZE, then
\* returning the block's address plus the old cursor and advancing the
\* cursor by n; otherwise it returns none and leaves cursor, limit and line
\* marks as they are.  Over a sequence of calls the cursor never decreases,
\* never exceeds BLOCK_SIZE, and the byte ranges handed out are pairwise
\* disjoint.
C26_InnerAllocContract ==
    /\ [][allocs' # allocs =>
              LET call == allocs'[Len(allocs')]
                  n == call.alloc_size
              IN  IF cursor + n <= BLOCK_SIZE
                  THEN /\ call.st = "some"
                       /\ call.ptr = block.ptr + cursor
                       /\ cursor' = cursor + n
                  ELSE /\ call.st = "none"
                       /\ UNCHANGED <<cursor, limit, line_mark>>]_vars
    /\ [][cursor' >= cursor]_vars
    /\ [](cursor <= BLOCK_SIZE)
    /\ [](\A i, j \in Handed :
              i < j => \/ allocs[i].ptr + allocs[i].alloc_size <= allocs[j].ptr
                       \/ allocs[j].ptr + allocs[j].alloc_size <= allocs[i].ptr)

\* C30: after any sequence of inner_alloc calls on a BumpBlock whose window
\* has cursor <= limit, cursor <= limit still holds, and no byte handed out
\* lies at or beyond the window's limit.
C30_CursorWithinLimit ==
    /\ cursor <= limit
    /\ \A k \in Handed : allocs[k].ptr + allocs[k].alloc_size <= block.ptr + limit

----------------------------------------------------------------------------
(* Claims about Block, checked under SpecBlock.                            *)

RECURSIVE PowerOfTwo(_)
PowerOfTwo(n) == n = 1 \/ (n > 1 /\ n % 2 = 0 /\ PowerOfTwo(n \div 2))

\* C27: Block::new(size) returns BadRequest, without asking for memory,
\* exactly when size is not a power of two; for a power of two it asks once
\* for size bytes aligned to size, returns OOM when the answer is null, and
\* otherwise a Block at a multiple of size, which is deallocated exactly
\* once, with that size and alignment, when dropped.
C27_BlockNewContract ==
    /\ [][block.st = "none" /\ block'.st # "none" =>
              LET size == block'.size IN
              IF ~PowerOfTwo(size)
              THEN block'.st = "BadRequest" /\ heap' = heap
              ELSE /\ Len(heap') = 1
                   /\ heap'[1] = HeapCall("alloc", heap'[1].ptr, size, size)
                   /\ heap'[1].ptr = 0 => block'.st = "OOM"
                   /\ heap'[1].ptr # 0 =>
                          /\ block'.st = "live"
                          /\ block'.ptr = heap'[1].ptr
                          /\ block'.ptr % size = 0]_vars
    /\ [](block.st = "live" => Len(heap) = 1)
    /\ [](block.st = "dropped" =>
              heap = <<HeapCall("alloc", block.ptr, block.size, block.size),
                       HeapCall("dealloc", block.ptr, block.size, block.size)>>)

====
